---- MODULE Spec2Model ----
(***************************************************************************)
(* The upload pipeline of sync-tauri (src-tauri/src/upload.rs): the        *)
(* debounced upload queue, the ingestion front-end, the scheduler loop     *)
(* process_upload_queue with its batch probe, and the spawned uploader     *)
(* tasks with retry and progress accounting; the directory watcher of      *)
(* src-tauri/src/lib.rs (start_watching, stop_watching); the locking of    *)
(* the three mutexes of upload.rs by the threads that share them; and the  *)
(* heartbeat of src-tauri/src/heartbeat.rs (start, stop, update, task).    *)
(*                                                                         *)
(* Time is the wall clock in milliseconds (now).  Item timestamps are the  *)
(* clock truncated to whole seconds, as the code stores them.  The clock   *)
(* is monotonic here, so the u64 subtraction of the drain never wraps.     *)
(*                                                                         *)
(* Every item carries three ghost fields the code does not have and no     *)
(* step of the model reads: id (the serial number of the enqueue call that *)
(* created it), enqueued_ms (the clock at that call, in milliseconds) and  *)
(* attempts (the calls of upload_file made for it).  The variable emit     *)
(* holds the                                                               *)
(* file_upload_status event emitted by the last step (NoEvent if none):    *)
(* every step below emits at most one such event.                          *)
(***************************************************************************)
EXTENDS Integers, Sequences, FiniteSets, Bags

VARIABLES
    now,        \* wall clock, milliseconds since the epoch
    config,     \* UploadConfigState
    queue,      \* UploadQueue: VecDeque<UploadItem>
    progress,   \* UploadProgressState
    sched,      \* locals of process_upload_queue and its position
    tasks,      \* spawned uploader tasks (a bag: the runtime does not order them)
    next_id,    \* ghost: serial number of the next item created
    emit,       \* file_upload_status event emitted by the last step
    emitted,    \* ghost: how many `uploaded` and `failed` statuses were emitted
    watcher_state,  \* WatcherState: Option<RecommendedWatcher>, 0 for None
    watching,       \* the watchers that exist: created, watching, not dropped
    start_calls,    \* the calls of start_watching made, each with its position
    mutex_owner,    \* the thread holding each std::sync::Mutex of upload.rs
    thread_code,    \* what each thread has left to do on these mutexes
    heartbeat_state,  \* HeartbeatState: Option<HeartbeatConfig>, 0 for None
    status_state,     \* HeartbeatStatusState
    task_state,       \* HeartbeatTaskState: Option<JoinHandle>, 0 for None
    heartbeat_tasks,  \* the heartbeat tasks spawned, each with its position
    heartbeat_calls   \* the heartbeat commands called, each with its position

watch_vars == <<watcher_state, watching, start_calls>>

lock_vars == <<mutex_owner, thread_code>>

heartbeat_vars == <<heartbeat_state, status_state, task_state, heartbeat_tasks, heartbeat_calls>>

vars == <<now, config, queue, progress, sched, tasks, next_id, emit, emitted, watch_vars, lock_vars, heartbeat_vars>>

(***************************************************************************)
(* Bounds of the model.                                                    *)
(***************************************************************************)
MaxEnqueues == 2        \* items created in one behaviour
MaxCapEnqueues == 3     \* the same, in the specification of the changing cap
MaxDrainEnqueues == 3   \* the same, in the specification of the drain alone
MaxRetryEnqueues == 1   \* the same, in the timed specification of the retries
MaxTimeMs == 1500       \* the clock stops here
TickMs == 500           \* granularity of the clock
DelayMs == 500          \* the upload_delay_ms of the timed specifications
MaxProbeEnqueues == 2
MaxProbeTimeMs == 9000
ProbeTickMs == 3000
MaxIngestEnqueues == 2
MaxExistingEnqueues == 2
MaxOutcomeEnqueues == 2
MaxClearEnqueues == 2
MaxCounterEnqueues == 1
MaxFinalizeEnqueues == 2
MaxLiveEnqueues == 2
MaxStarts == 2             \* calls of start_watching in one behaviour
MaxWatchEnqueues == 2
MaxHeartbeatCalls == 2     \* heartbeat commands called in one behaviour
MaxTerminalEnqueues == 2   \* files enqueued where every item is followed to its end
MAX_BATCH_SIZE == 2     \* 1000 in the source; scaled so that a drain can hit it

(***************************************************************************)
(* Program constants.                                                      *)
(***************************************************************************)
MAX_RETRY_COUNT == 3
RETRY_DELAY_SECS == 5
DEFAULT_UPLOAD_DELAY_MS == 2000
DEFAULT_MAX_CONCURRENT_UPLOADS == 5

STATUS_EXISTS == "exists"
STATUS_NEEDS_UPLOAD == "needs_upload"
STATUS_IGNORED == "ignored"
STATUS_QUEUED == "queued"
STATUS_UPLOADING == "uploading"
STATUS_UPLOADED == "uploaded"
STATUS_FAILED == "failed"

EVENT_TYPE_INITIAL == "initial"
EVENT_TYPE_MODIFIED == "modified"

(***************************************************************************)
(* The files of the watched folder /w, and the other inputs.               *)
(***************************************************************************)
\* A path is the sequence of its components: <<"w", "a.txt">> is /w/a.txt.
BasePath == <<"w">>
AbsPaths == { <<"w", "a.txt">>, <<"w", "b.tmp">> }
MorePaths == AbsPaths \cup { <<"w", "c.txt">> }
EventTypes == {EVENT_TYPE_INITIAL, EVENT_TYPE_MODIFIED}
StatOutcomes == {"file", "dir", "err"}       \* std::fs::metadata
UploadOutcomes == {"ok", "read_err", "put_err"}  \* what upload_file meets
MetadataOutcomes == {"ok", "err"}            \* update_file_metadata

\* the three std::sync::Mutex of upload.rs and the threads that lock them: the
\* scheduler, an uploader task, the thread of the watcher callback and a
\* thread of the runtime serving the commands of the front-end
Mutexes == {"upload_queue", "upload_config", "upload_progress"}
Threads == {"scheduler", "uploader", "watcher", "command"}
NoThread == "none"

\* HeartbeatStatus { status: None, is_loading: false, error: None }
ClearedStatus == [status |-> "none", is_loading |-> FALSE, error |-> "none"]

NoEvent == [relative_path |-> <<>>, status |-> "", error |-> "", id |-> 0]
Event(rel, status, error, id) ==
    [relative_path |-> rel, status |-> status, error |-> error, id |-> id]

\* the count of the terminal statuses emitted, after the event e
Tally(n, e) ==
    [uploaded |-> n.uploaded + (IF e.status = STATUS_UPLOADED THEN 1 ELSE 0),
     failed |-> n.failed + (IF e.status = STATUS_FAILED THEN 1 ELSE 0)]

\* absolute_path.starts_with(base_path)
StartsWith(absolute_path, base_path) ==
    /\ Len(base_path) <= Len(absolute_path)
    /\ SubSeq(absolute_path, 1, Len(base_path)) = base_path

\* the base prefix stripped when the path lies under the base, else the path itself
get_relative_path(absolute_path, base_path) ==
    IF StartsWith(absolute_path, base_path)
    THEN SubSeq(absolute_path, Len(base_path) + 1, Len(absolute_path))
    ELSE absolute_path

\* glob::Pattern::new(pattern).matches(path), for the patterns and the file names
\* used here; `*` also matches across separators; a pattern that does not compile
\* ("[") is skipped
PatternMatches(pattern, file_path) ==
    CASE pattern = "*.tmp" ->
           file_path # <<>> /\ file_path[Len(file_path)] \in {"b.tmp"}
      [] pattern = "*" -> TRUE
      [] OTHER -> FALSE

\* a matcher that ignores no file
should_ignore_nothing(file_path, ignored_patterns) == FALSE

should_ignore_file(file_path, ignored_patterns) ==
    \E i \in 1..Len(ignored_patterns) : PatternMatches(ignored_patterns[i], file_path)

DefaultConfig ==
    [enabled |-> TRUE,
     ignored_patterns |-> <<"*.tmp", ".git/**", "node_modules/**", ".DS_Store">>,
     upload_delay_ms |-> DEFAULT_UPLOAD_DELAY_MS,
     max_concurrent_uploads |-> DEFAULT_MAX_CONCURRENT_UPLOADS,
     ignore_existing_files |-> FALSE]

now_secs == now \div 1000

(***************************************************************************)
(* Sequence helpers.                                                       *)
(***************************************************************************)
\* a selection that would hand the elements back in reverse order
SubSeqAtBackwards(q, S, keep) ==
    LET idx == { i \in DOMAIN q : (i \in S) = keep }
    IN [k \in 1..Cardinality(idx) |->
          q[CHOOSE i \in idx : Cardinality({ j \in idx : j >= i }) = k]]

RECURSIVE SubSeqAt(_, _, _)
\* the elements of q at the indices of S (keep = TRUE) or at the others, in order
SubSeqAt(q, S, keep) ==
    IF q = <<>> THEN <<>>
    ELSE LET n == Len(q)
             front == SubSeqAt(SubSeq(q, 1, n - 1), S, keep)
         IN IF (n \in S) = keep THEN Append(front, q[n]) ELSE front

(***************************************************************************)
(* add_to_upload_queue_with_event_type                                     *)
(***************************************************************************)
\* an enqueue that would put the new item at the head of the queue
PushDedupFront(q, upload_item) ==
    <<upload_item>> \o SelectSeq(q, LAMBDA item : item.path # upload_item.path)

\* queue.retain(|item| item.path != upload_item.path); queue.push_back(upload_item)
PushDedup(q, upload_item) ==
    Append(SelectSeq(q, LAMBDA item : item.path # upload_item.path), upload_item)

NewUploadItem(file_path, relative_path, id) ==
    [id |-> id,
     path |-> file_path,
     relative_path |-> relative_path,
     timestamp |-> now_secs,
     retry_count |-> 0,
     enqueued_ms |-> now,
     attempts |-> 0]

\* a master switch that is always on
EnabledAlways(cfg) == TRUE

\* config.enabled, of the snapshot the caller has taken
IsEnabled(cfg) == cfg.enabled

\* a setting that would suppress every event of a file
SuppressedAlways(cfg, event_type) == cfg.ignore_existing_files

\* config.ignore_existing_files && event_type == EVENT_TYPE_INITIAL
Suppressed(cfg, event_type) ==
    cfg.ignore_existing_files /\ event_type = EVENT_TYPE_INITIAL

\* stat is what std::fs::metadata finds; max_items bounds the items created
add_to_upload_queue_with_event_type(file_path, base_path, event_type, stat, max_items) ==
    LET cfg == config
        relative_path == get_relative_path(file_path, base_path)
        ignored == Event(relative_path, STATUS_IGNORED, "", 0)
    IN /\ IF ~IsEnabled(cfg)
          THEN /\ emit' = ignored
               /\ UNCHANGED <<queue, next_id>>
          ELSE IF Suppressed(cfg, event_type)
          THEN /\ emit' = ignored
               /\ UNCHANGED <<queue, next_id>>
          ELSE IF should_ignore_file(relative_path, cfg.ignored_patterns)
          THEN /\ emit' = ignored
               /\ UNCHANGED <<queue, next_id>>
          ELSE IF stat = "err"
          THEN /\ emit' = NoEvent
               /\ UNCHANGED <<queue, next_id>>
          ELSE IF stat = "dir"
          THEN /\ emit' = ignored
               /\ UNCHANGED <<queue, next_id>>
          ELSE /\ next_id <= max_items
               /\ queue' = PushDedup(queue, NewUploadItem(file_path, relative_path, next_id))
               /\ next_id' = next_id + 1
               /\ emit' = Event(relative_path, STATUS_QUEUED, "", next_id)
       /\ UNCHANGED <<now, config, progress, sched, tasks, lock_vars, heartbeat_vars>>
       /\ emitted' = Tally(emitted, emit')

\* an enqueue call of the watcher callback, of a manual upload, or of an initial
\* scan taken as a whole
Enqueue(file_path, base_path, event_type, stat, max_items) ==
    /\ add_to_upload_queue_with_event_type(file_path, base_path, event_type, stat,
                                           max_items)
    /\ UNCHANGED watch_vars

(***************************************************************************)
(* process_upload_queue: the scheduler loop                                *)
(***************************************************************************)
\* a readiness test that misses the item whose age equals the delay
IsReadyStrict(item, current_time, upload_delay_ms) ==
    current_time - (item.timestamp * 1000) > upload_delay_ms

\* item_age_ms >= config.upload_delay_ms, item_age_ms = current_time - timestamp * 1000
IsReady(item, current_time, upload_delay_ms) ==
    current_time - (item.timestamp * 1000) >= upload_delay_ms

\* a walk that would collect every ready item, however many
ReadyIndicesAll(q, i, count, current_time, upload_delay_ms) ==
    { j \in i..Len(q) : IsReady(q[j], current_time, upload_delay_ms) }

RECURSIVE ReadyIndices(_, _, _, _, _)
\* indices_to_remove: the walk over queue.iter().enumerate() from index i on,
\* count items already collected, stopping once MAX_BATCH_SIZE are collected
ReadyIndices(q, i, count, current_time, upload_delay_ms) ==
    IF i > Len(q) \/ count >= MAX_BATCH_SIZE THEN {}
    ELSE IF IsReady(q[i], current_time, upload_delay_ms)
         THEN {i} \cup ReadyIndices(q, i + 1, count + 1, current_time, upload_delay_ms)
         ELSE ReadyIndices(q, i + 1, count, current_time, upload_delay_ms)

\* the semaphore the scheduler holds after the check of the concurrency setting:
\* a new one of the configured size when the setting differs from last_max_concurrent
RebuildNeeded(cfg, last_max_concurrent) ==
    cfg.max_concurrent_uploads # last_max_concurrent

\* the tasks after a rebuild: none holds a permit of the scheduler's semaphore
Outdated(running) ==
    LET old(t) == [t EXCEPT !.cur = FALSE]
        new(t) == [t EXCEPT !.cur = TRUE]
        count(t) == IF t \in DOMAIN running THEN running[t] ELSE 0
    IN [t \in { old(u) : u \in DOMAIN running } |-> count(t) + count(new(t))]

\* top of the loop: snapshot the config; idle when disabled; rebuild the semaphore
SchedSnapshot ==
    /\ sched.pc = "loop"
    /\ LET cfg == config IN
       IF ~IsEnabled(cfg)
       THEN /\ sched' = [sched EXCEPT !.config = cfg]
            /\ UNCHANGED tasks
       ELSE IF RebuildNeeded(cfg, sched.last_max_concurrent)
       THEN /\ sched' = [sched EXCEPT !.config = cfg, !.pc = "drain",
                                      !.permits = cfg.max_concurrent_uploads,
                                      !.last_max_concurrent = cfg.max_concurrent_uploads]
            \* permits held by running tasks belong to the semaphore just replaced
            /\ tasks' = Outdated(tasks)
       ELSE /\ sched' = [sched EXCEPT !.config = cfg, !.pc = "drain"]
            /\ UNCHANGED tasks
    /\ emit' = NoEvent
    /\ UNCHANGED <<now, config, queue, progress, next_id>>
    /\ UNCHANGED <<watch_vars, lock_vars, heartbeat_vars>>
    /\ emitted' = Tally(emitted, emit')

\* collect up to MAX_BATCH_SIZE ready items and remove them from the queue
SchedDrain ==
    /\ sched.pc = "drain"
    /\ LET current_time == now
           indices_to_remove ==
               ReadyIndices(queue, 1, 0, current_time, sched.config.upload_delay_ms)
           ready == SubSeqAt(queue, indices_to_remove, TRUE)
       IN /\ queue' = SubSeqAt(queue, indices_to_remove, FALSE)
          /\ sched' = [sched EXCEPT !.ready_items = ready,
                                    !.pc = IF ready # <<>> THEN "publish" ELSE "loop"]
    /\ emit' = NoEvent
    /\ UNCHANGED <<now, config, progress, tasks, next_id>>
    /\ UNCHANGED <<watch_vars, lock_vars, heartbeat_vars>>
    /\ emitted' = Tally(emitted, emit')

\* progress.total_queued = queue.len()
SchedPublish ==
    /\ sched.pc = "publish"
    /\ progress' = [progress EXCEPT !.total_queued = Len(queue)]
    /\ sched' = [sched EXCEPT !.pc = "probe"]
    /\ emit' = NoEvent
    /\ UNCHANGED <<now, config, queue, tasks, next_id>>
    /\ UNCHANGED <<watch_vars, lock_vars, heartbeat_vars>>
    /\ emitted' = Tally(emitted, emit')

(***************************************************************************)
(* get_presigned_urls_batch                                                *)
(***************************************************************************)
\* what the server may say about one file of the request; for_id names the item
\* whose entry of the request the verdict answers
VerdictsFor(item) ==
    { [file_name |-> item.relative_path, status |-> v[1], upload_url |-> v[2],
       for_id |-> item.id] :
        v \in { <<STATUS_EXISTS, "none">>, <<STATUS_NEEDS_UPLOAD, "url">>,
                <<STATUS_NEEDS_UPLOAD, "none">>, <<"error", "none">> } }

RECURSIVE Responses(_)
\* the bodies the server may return for a request: for each file of the request,
\* in request order, one verdict or none
Responses(valid_items) ==
    IF valid_items = <<>> THEN { <<>> }
    ELSE LET rest == Responses(Tail(valid_items))
         IN rest \cup { <<r>> \o s : r \in VerdictsFor(Head(valid_items)), s \in rest }

RECURSIVE MatchResults(_, _)
\* for result in batch_response.files: valid_items.iter().find(relative_path == file_name)
MatchResults(valid_items, files) ==
    IF files = <<>> THEN <<>>
    ELSE LET result == Head(files)
             found == { i \in 1..Len(valid_items) :
                          valid_items[i].relative_path = result.file_name }
             rest == MatchResults(valid_items, Tail(files))
         IN IF found = {} THEN rest
            ELSE LET first == CHOOSE i \in found : \A j \in found : i <= j
                 IN <<[item |-> valid_items[first], result |-> result]>> \o rest

\* a failed probe that would stamp the items anew
RequeueRefreshed(q, items) ==
    q \o [i \in DOMAIN items |-> [items[i] EXCEPT !.timestamp = now_secs]]

\* the items of a failed probe go back to the queue: queue.push_back(item) for each
RequeueAll(q, items) == q \o items

\* the first half of the probe: every file of the batch is read for its CRC32C;
\* readable is the set of (indices of) items whose read succeeds.  With no file
\* read the function returns Ok(vec![]) and no request is sent
SchedProbeRead(readable) ==
    /\ sched.pc = "probe"
    /\ readable \subseteq 1..Len(sched.ready_items)
    /\ LET valid_items == SubSeqAt(sched.ready_items, readable, TRUE) IN
       IF valid_items = <<>>
       THEN sched' = [sched EXCEPT !.pc = "loop", !.ready_items = <<>>]
       ELSE sched' = [sched EXCEPT !.pc = "request", !.valid_items = valid_items]
    /\ emit' = NoEvent
    /\ UNCHANGED <<now, config, queue, progress, tasks, next_id>>
    /\ UNCHANGED <<watch_vars, lock_vars, heartbeat_vars>>
    /\ emitted' = Tally(emitted, emit')

\* the second half: the request; http = "err" is a transport error, a status
\* other than 2xx or a body that does not parse; files is the server's answer
SchedProbeRequest(http, files) ==
    /\ sched.pc = "request"
    /\ IF http = "err"
       THEN /\ files = <<>>
            /\ queue' = RequeueAll(queue, sched.ready_items)
            \* sleep(Duration::from_secs(RETRY_DELAY_SECS)).await; continue
            /\ sched' = [sched EXCEPT !.pc = "sleep", !.ready_items = <<>>,
                                      !.valid_items = <<>>,
                                      !.wake = now + RETRY_DELAY_SECS * 1000]
       ELSE /\ http = "ok"
            /\ LET batch_results == MatchResults(sched.valid_items, files) IN
               sched' = [sched EXCEPT !.ready_items = <<>>, !.valid_items = <<>>,
                                      !.batch_results = batch_results,
                                      !.pc = IF batch_results = <<>> THEN "loop"
                                             ELSE "results"]
            /\ UNCHANGED queue
    /\ emit' = NoEvent
    /\ UNCHANGED <<now, config, progress, tasks, next_id>>
    /\ UNCHANGED <<watch_vars, lock_vars, heartbeat_vars>>
    /\ emitted' = Tally(emitted, emit')

\* the sleep after a failed probe returns, at the time current_time, which is
\* not before the time the sleep was to end; the loop continues
SchedWake(current_time) ==
    /\ sched.pc = "sleep"
    /\ current_time >= sched.wake
    /\ sched' = [sched EXCEPT !.pc = "loop", !.wake = 0]
    /\ emit' = NoEvent
    /\ UNCHANGED <<now, config, queue, progress, tasks, next_id>>
    /\ UNCHANGED <<watch_vars, lock_vars, heartbeat_vars>>
    /\ emitted' = Tally(emitted, emit')

(***************************************************************************)
(* process_upload_queue: the results of a successful probe                 *)
(***************************************************************************)
\* a semaphore that never makes the scheduler wait
PermitAlways(permits) == TRUE

\* semaphore.clone().acquire_owned().await returns once a permit is available
PermitAvailable(permits) == permits > 0

\* needs_upload without a URL: queue.push_back(item)
RequeueItem(q, item) == Append(q, item)

\* a counter that would run backwards
CountedDown(n) == n - 1

\* a counter that would run ahead of the events
CountedTwice(n) == n + 2

\* progress.total_uploaded += 1, progress.total_failed += 1
Counted(n) == n + 1

NewTask(item) == [item |-> item, pc |-> "start", result |-> "", cur |-> TRUE]

\* one turn of `for (item, result) in batch_results`
SchedResult ==
    /\ sched.pc = "results"
    /\ LET item == Head(sched.batch_results).item
           result == Head(sched.batch_results).result
           rest == Tail(sched.batch_results)
           after == [sched EXCEPT !.batch_results = rest,
                                  !.pc = IF rest = <<>> THEN "loop" ELSE "results"]
       IN IF result.status = STATUS_EXISTS
          THEN /\ emit' = Event(item.relative_path, STATUS_UPLOADED, "", item.id)
               /\ progress' = [progress EXCEPT !.total_uploaded = Counted(@)]
               /\ sched' = after
               /\ UNCHANGED <<queue, tasks>>
          ELSE IF result.status = STATUS_NEEDS_UPLOAD
          THEN IF result.upload_url = "none"
               THEN /\ queue' = RequeueItem(queue, item)
                    /\ sched' = after
                    /\ emit' = NoEvent
                    /\ UNCHANGED <<progress, tasks>>
               ELSE /\ PermitAvailable(sched.permits)
                    /\ sched' = [after EXCEPT !.permits = @ - 1]
                    /\ tasks' = tasks (+) SetToBag({NewTask(item)})
                    /\ emit' = NoEvent
                    /\ UNCHANGED <<queue, progress>>
          ELSE /\ sched' = after
               /\ emit' = NoEvent
               /\ UNCHANGED <<queue, progress, tasks>>
    /\ UNCHANGED <<now, config, next_id>>
    /\ UNCHANGED <<watch_vars, lock_vars, heartbeat_vars>>
    /\ emitted' = Tally(emitted, emit')

(***************************************************************************)
(* The spawned uploader task: upload_file and the bookkeeping after it     *)
(***************************************************************************)
\* the bag of tasks with task t now in state u
Moved(running, t, u) == (running (-) SetToBag({t})) (+) SetToBag({u})

\* upload_file emits `uploading` and starts reading the file
UploadStart(t) ==
    /\ t \in DOMAIN tasks
    /\ t.pc = "start"
    /\ tasks' = Moved(tasks, t, [t EXCEPT !.pc = "io", !.item.attempts = @ + 1])
    /\ emit' = Event(t.item.relative_path, STATUS_UPLOADING, "", t.item.id)
    /\ UNCHANGED <<now, config, queue, progress, sched, next_id>>
    /\ UNCHANGED <<watch_vars, lock_vars, heartbeat_vars>>
    /\ emitted' = Tally(emitted, emit')

\* an upload_file that would fail when update_file_metadata fails
UploadResultStrict(outcome, metadata) ==
    IF outcome = "ok" THEN (IF metadata = "ok" THEN "ok" ELSE "metadata_err")
    ELSE outcome

\* the Result upload_file returns: a failed read or PUT is an Err carrying its
\* message; a failed update_file_metadata is logged and the upload is Ok
UploadResult(outcome, metadata) ==
    IF outcome = "ok" THEN "ok" ELSE outcome

\* an upload_file that would report `uploaded` whatever became of the upload
ReturnStatusEager(item, res) ==
    Event(item.relative_path, STATUS_UPLOADED, "", item.id)

\* the status upload_file emits before it returns: `uploaded` right before Ok,
\* nothing on the early returns of the `?` operators
ReturnStatus(item, res) ==
    IF res = "ok" THEN Event(item.relative_path, STATUS_UPLOADED, "", item.id)
    ELSE NoEvent

\* upload_file returns; on Ok it has emitted `uploaded`
UploadFileReturn(t, outcome, metadata) ==
    /\ t \in DOMAIN tasks
    /\ t.pc = "io"
    /\ LET res == UploadResult(outcome, metadata) IN
       /\ tasks' = Moved(tasks, t, [t EXCEPT !.pc = "returned", !.result = res])
       /\ emit' = ReturnStatus(t.item, res)
    /\ UNCHANGED <<now, config, queue, progress, sched, next_id>>
    /\ UNCHANGED <<watch_vars, lock_vars, heartbeat_vars>>
    /\ emitted' = Tally(emitted, emit')

\* a retry test that allows one attempt more
ShouldRetryOnceMore(retry_count) == retry_count <= MAX_RETRY_COUNT

\* item.retry_count < MAX_RETRY_COUNT, after the increment
ShouldRetry(retry_count) == retry_count < MAX_RETRY_COUNT

\* emit_file_upload_status(relative_path, STATUS_FAILED, Some(e))
FailedStatus(item, e) == Event(item.relative_path, STATUS_FAILED, e, item.id)

\* a retry that keeps the old timestamp
RetryItemStale(item, secs) == [item EXCEPT !.retry_count = @ + 1]

\* the item re-queued for a retry: item.retry_count += 1; item.timestamp = now
RetryItem(item, secs) ==
    [item EXCEPT !.retry_count = @ + 1, !.timestamp = secs]

\* a release that would hand every permit to the scheduler's current semaphore
ReleasePermitAny(permits, cur) == permits + 1

\* drop(permit): the permit returns to the semaphore it was acquired from
ReleasePermit(permits, cur) == IF cur THEN permits + 1 ELSE permits

\* `match upload_result` of the spawned task, then drop(permit)
UploadTaskFinish(t) ==
    /\ t \in DOMAIN tasks
    /\ t.pc = "returned"
    /\ LET item == t.item
           e == t.result
       IN IF e = "ok"
          THEN /\ progress' = [progress EXCEPT !.total_uploaded = Counted(@),
                                               !.total_queued = Len(queue)]
               /\ emit' = NoEvent
               /\ UNCHANGED queue
          ELSE IF ShouldRetry(item.retry_count + 1)
          THEN /\ queue' = Append(queue, RetryItem(item, now_secs))
               /\ emit' = NoEvent
               /\ UNCHANGED progress
          ELSE /\ emit' = FailedStatus(item, e)
               /\ progress' = [progress EXCEPT !.total_failed = Counted(@),
                                               !.total_queued = Len(queue)]
               /\ UNCHANGED queue
    /\ sched' = [sched EXCEPT !.permits = ReleasePermit(@, t.cur)]
    /\ tasks' = tasks (-) SetToBag({t})
    /\ UNCHANGED <<now, config, next_id>>
    /\ UNCHANGED <<watch_vars, lock_vars, heartbeat_vars>>
    /\ emitted' = Tally(emitted, emit')

(***************************************************************************)
(* Commands and the clock                                                  *)
(***************************************************************************)
\* a clear that would keep the item enqueued last
ClearedButLast(q) == IF q = <<>> THEN q ELSE <<q[Len(q)]>>

\* queue.clear()
Cleared(q) == <<>>

clear_upload_queue ==
    /\ queue' = Cleared(queue)
    /\ emit' = NoEvent
    /\ UNCHANGED <<now, config, progress, sched, tasks, next_id>>
    /\ UNCHANGED <<watch_vars, lock_vars, heartbeat_vars>>
    /\ emitted' = Tally(emitted, emit')

set_upload_config(new_config) ==
    /\ config' = new_config
    /\ emit' = NoEvent
    /\ UNCHANGED <<now, queue, progress, sched, tasks, next_id>>
    /\ UNCHANGED <<watch_vars, lock_vars, heartbeat_vars>>
    /\ emitted' = Tally(emitted, emit')

\* the clock advances by ms, up to max_ms
Elapse(ms, max_ms) ==
    /\ now + ms <= max_ms
    /\ now' = now + ms
    /\ emit' = NoEvent
    /\ UNCHANGED <<config, queue, progress, sched, tasks, next_id>>
    /\ UNCHANGED <<watch_vars, lock_vars, heartbeat_vars>>
    /\ emitted' = Tally(emitted, emit')

Tick ==
    /\ now + TickMs <= MaxTimeMs
    /\ now' = now + TickMs
    /\ emit' = NoEvent
    /\ UNCHANGED <<config, queue, progress, sched, tasks, next_id>>
    /\ UNCHANGED <<watch_vars, lock_vars, heartbeat_vars>>
    /\ emitted' = Tally(emitted, emit')

(***************************************************************************)
(* Initial states                                                          *)
(***************************************************************************)
\* run(): empty queue, default config, zero progress; the scheduler is spawned
\* with a semaphore of DEFAULT_MAX_CONCURRENT_UPLOADS permits
InitWith(cfg) ==
    /\ now = 0
    /\ config = cfg
    /\ queue = <<>>
    /\ progress = [total_queued |-> 0, total_uploaded |-> 0, total_failed |-> 0]
    /\ sched = [pc |-> "loop", config |-> cfg, ready_items |-> <<>>,
                valid_items |-> <<>>, batch_results |-> <<>>,
                permits |-> DEFAULT_MAX_CONCURRENT_UPLOADS,
                last_max_concurrent |-> DEFAULT_MAX_CONCURRENT_UPLOADS,
                wake |-> 0]
    /\ tasks = EmptyBag
    /\ next_id = 1
    /\ emit = NoEvent
    /\ emitted = [uploaded |-> 0, failed |-> 0]
    /\ watcher_state = 0
    /\ watching = {}
    /\ start_calls = <<>>
    /\ mutex_owner = [m \in Mutexes |-> NoThread]
    /\ thread_code = [t \in Threads |-> <<>>]
    /\ heartbeat_state = 0
    /\ status_state = ClearedStatus
    /\ task_state = 0
    /\ heartbeat_tasks = <<>>
    /\ heartbeat_calls = <<>>

Init == InitWith(DefaultConfig)

\* the configs the front-end sets: uploads on, nothing ignored
Config(upload_delay_ms, max_concurrent_uploads) ==
    [DefaultConfig EXCEPT !.ignored_patterns = <<>>,
                          !.upload_delay_ms = upload_delay_ms,
                          !.max_concurrent_uploads = max_concurrent_uploads]

\* the state after run() and one set_upload_config, before any file is enqueued:
\* no debounce delay, a cap of 2
InitPipeline == InitWith(Config(0, 2))

\* the same with a cap of 1
InitSerial == InitWith(Config(0, 1))

(***************************************************************************)
(* The steps, with the inputs they are given                               *)
(***************************************************************************)
\* the probe with every outcome: any files unreadable, the request failing, any
\* answer of the server
ProbeRead == \E readable \in SUBSET (1..Len(sched.ready_items)) : SchedProbeRead(readable)

ProbeRequest ==
    \/ SchedProbeRequest("err", <<>>)
    \/ \E files \in Responses(sched.valid_items) : SchedProbeRequest("ok", files)

\* where the length of the scheduler's sleep is left open, the sleep returns at
\* the time it was to end, whatever the clock of the specification
SchedWakeUntimed == SchedWake(sched.wake)

Scheduler ==
    \/ SchedSnapshot
    \/ SchedDrain
    \/ SchedPublish
    \/ ProbeRead
    \/ ProbeRequest
    \/ SchedWakeUntimed
    \/ SchedResult

UploaderWith(outcomes) ==
    \E t \in DOMAIN tasks :
        \/ UploadStart(t)
        \/ \E outcome \in outcomes : \E metadata \in MetadataOutcomes :
             UploadFileReturn(t, outcome, metadata)
        \/ UploadTaskFinish(t)

Uploader == UploaderWith(UploadOutcomes)

\* a file of the watched folder is created or modified, or uploaded by hand
EnqueueFile(paths, max_items) ==
    \E p \in paths : Enqueue(p, BasePath, EVENT_TYPE_MODIFIED, "file", max_items)

\* the two files are alike to every step of the pipeline: the first one enqueued
\* is taken to be /w/a.txt
PipelinePaths == IF next_id = 1 THEN { <<"w", "a.txt">> } ELSE AbsPaths

NextPipeline ==
    \/ EnqueueFile(PipelinePaths, MaxEnqueues)
    \/ Scheduler
    \/ Uploader

\* the pipeline without debounce delay and without config changes
SpecPipeline == InitPipeline /\ [][NextPipeline]_vars

\* the same pipeline under a concurrency cap of 1
SpecSerial == InitSerial /\ [][NextPipeline]_vars

(***************************************************************************)
(* Where the items are                                                     *)
(***************************************************************************)
Range(seq) == { seq[i] : i \in DOMAIN seq }
QueueIds == { item.id : item \in Range(queue) }
\* the items the scheduler has drained and still holds
HeldIds ==
    { item.id : item \in Range(sched.ready_items) }
        \cup { r.item.id : r \in Range(sched.batch_results) }
TaskIds == { t.item.id : t \in DOMAIN tasks }
DrainedIds == HeldIds \cup TaskIds
NumTasks == BagCardinality(tasks)

(***************************************************************************)
(* C1: in every reachable state the upload queue holds at most one item    *)
(* per absolute path.                                                      *)
(***************************************************************************)
C1_OneItemPerPath ==
    \A i, j \in DOMAIN queue : i # j => queue[i].path # queue[j].path

(***************************************************************************)
(* C2: at most one upload attempt per absolute path is active at any time: *)
(* no two uploader tasks for the same path are in flight together.         *)
(***************************************************************************)
C2_OneAttemptPerPath ==
    \A t, u \in DOMAIN tasks :
        /\ tasks[t] = 1
        /\ t # u => t.item.path # u.item.path

(***************************************************************************)
(* C6: every item the scheduler has removed from the queue ends re-appended*)
(* to the queue, or counted as uploaded, or reported `failed` and counted  *)
(* as failed: in no step does a drained item leave the scheduler and the   *)
(* uploader tasks without one of the three.                                *)
(***************************************************************************)
C6_DrainedItemAccounted ==
    [][\A id \in DrainedIds :
         id \notin DrainedIds' =>
            \/ id \in QueueIds'
            \/ /\ progress'.total_uploaded = progress.total_uploaded + 1
               /\ progress'.total_failed = progress.total_failed
            \/ /\ progress'.total_failed = progress.total_failed + 1
               /\ progress'.total_uploaded = progress.total_uploaded
               /\ emit'.status = STATUS_FAILED /\ emit'.id = id]_vars

(***************************************************************************)
(* C7: an item whose file cannot be read, in the probe's digest read or in *)
(* the uploader's body read, is re-enqueued for a retry and not dropped    *)
(* (the uploader's read counting as one of the item's MAX_RETRY_COUNT      *)
(* attempts).                                                              *)
(***************************************************************************)
C7_FailedReadRetried ==
    [][/\ (sched.pc = "probe" /\ sched'.pc # "probe") =>
            \A item \in Range(sched.ready_items) :
                item \notin Range(sched'.valid_items) => item.id \in QueueIds'
       /\ \A t \in DOMAIN tasks :
            (t.pc = "returned" /\ t.result = "read_err" /\ t \notin DOMAIN tasks'
                /\ t.item.attempts < MAX_RETRY_COUNT)
                => t.item.id \in QueueIds']_vars

(***************************************************************************)
(* C8: every item in the queue has retry_count < MAX_RETRY_COUNT.          *)
(***************************************************************************)
C8_QueuedRetryCountBelowMax ==
    \A i \in DOMAIN queue : queue[i].retry_count < MAX_RETRY_COUNT

\* an item is back in the queue after its second failed attempt
C8_Witness ==
    \E i \in DOMAIN queue :
        queue[i].retry_count = MAX_RETRY_COUNT - 1 /\ queue[i].attempts = 2

\* an uploader task that ends in this step
Finishes(t) == t.pc = "returned" /\ tasks' = tasks (-) SetToBag({t})

(***************************************************************************)
(* C9: an item whose every upload attempt fails is attempted exactly       *)
(* MAX_RETRY_COUNT times: the task of a failed attempt emits `failed` if   *)
(* and only if the attempt was the third; the status carries that          *)
(* attempt's error, total_failed grows by 1, total_uploaded is unchanged,  *)
(* and the item is then nowhere in the pipeline (and no item comes back:   *)
(* the items of the pipeline after a step were there before it or are      *)
(* newly enqueued).  No item is ever attempted more than three times.      *)
(***************************************************************************)
C9_ThirdFailureIsFinal ==
    [][/\ \A t \in DOMAIN tasks :
            (Finishes(t) /\ t.result # "ok") =>
                IF t.item.attempts = MAX_RETRY_COUNT
                THEN /\ emit' = Event(t.item.relative_path, STATUS_FAILED, t.result,
                                      t.item.id)
                     /\ progress'.total_failed = progress.total_failed + 1
                     /\ progress'.total_uploaded = progress.total_uploaded
                     /\ t.item.id \notin (QueueIds' \cup DrainedIds')
                ELSE /\ emit'.status # STATUS_FAILED
                     /\ progress'.total_failed = progress.total_failed
       /\ emit'.status = STATUS_FAILED =>
            \E t \in DOMAIN tasks :
                Finishes(t) /\ t.item.id = emit'.id /\ t.item.attempts = MAX_RETRY_COUNT
       /\ \A t \in DOMAIN tasks : t.item.attempts <= MAX_RETRY_COUNT
       /\ (QueueIds' \cup DrainedIds') \subseteq (QueueIds \cup DrainedIds \cup {next_id})
      ]_vars

\* the third attempt of an item has failed and `failed` has just been emitted
C9_Witness ==
    /\ emit.status = STATUS_FAILED
    /\ emit.error \in {"read_err", "put_err"}
    /\ progress.total_failed = 1
    /\ emit.id \notin (QueueIds \cup DrainedIds)

(***************************************************************************)
(* The pipeline under changes of max_concurrent_uploads                    *)
(***************************************************************************)
\* every file read, the server asking for every file to be uploaded
NeedsUploadAll(valid_items) ==
    [i \in DOMAIN valid_items |->
        [file_name |-> valid_items[i].relative_path, status |-> STATUS_NEEDS_UPLOAD,
         upload_url |-> "url", for_id |-> valid_items[i].id]]

NextCap ==
    \/ EnqueueFile(PipelinePaths, MaxCapEnqueues)
    \/ SchedSnapshot
    \/ SchedDrain
    \/ SchedPublish
    \/ SchedProbeRead(1..Len(sched.ready_items))
    \/ SchedProbeRequest("ok", NeedsUploadAll(sched.valid_items))
    \/ SchedResult
    \/ UploaderWith({"ok"})
    \/ \E cap \in {1, 2} : set_upload_config(Config(0, cap))

\* every file is uploaded while the cap moves between 1 and 2
SpecCap == InitSerial /\ [][NextCap]_vars

(***************************************************************************)
(* C5: when the limiter in use is the one built for the configured cap N   *)
(* and every upload in flight was dispatched under it, at most N uploader  *)
(* tasks are in flight (a task is in flight from the acquisition of its    *)
(* permit to the end of its bookkeeping); with N = 1 no two overlap.       *)
(***************************************************************************)
CapSettled ==
    /\ sched.last_max_concurrent = config.max_concurrent_uploads
    /\ \A t \in DOMAIN tasks : t.cur

C5_AtMostCapInFlight ==
    CapSettled => NumTasks <= config.max_concurrent_uploads

\* the cap is 2, two uploads are in flight and the scheduler waits for a permit
C5_Witness ==
    /\ CapSettled
    /\ config.max_concurrent_uploads = 2
    /\ NumTasks = 2
    /\ sched.pc = "results"
    /\ Head(sched.batch_results).result.upload_url = "url"
    /\ sched.permits = 0

(***************************************************************************)
(* The drain under a running clock                                         *)
(***************************************************************************)
\* the server holding every file of the request already
ExistsAll(valid_items) ==
    [i \in DOMAIN valid_items |->
        [file_name |-> valid_items[i].relative_path, status |-> STATUS_EXISTS,
         upload_url |-> "none", for_id |-> valid_items[i].id]]

\* the state after run() and set_upload_config, with or without a debounce delay
InitDrain == \E d \in {0, DelayMs} : InitWith(Config(d, 2))

NextDrain ==
    \/ EnqueueFile(MorePaths, MaxDrainEnqueues)
    \/ Tick
    \/ SchedSnapshot
    \/ SchedDrain
    \/ SchedPublish
    \/ ProbeRead
    \/ SchedProbeRequest("err", <<>>)
    \/ SchedWakeUntimed
    \/ SchedProbeRequest("ok", ExistsAll(sched.valid_items))
    \/ SchedResult

\* enqueues and drains while the clock runs; the probe fails or finds every file
\* on the server, so that no upload is started
SpecDrain == InitDrain /\ [][NextDrain]_vars

\* the step is a drain of the scheduler
DrainStep == sched.pc = "drain" /\ sched'.pc # "drain"

\* the items of the pipeline
LiveItems ==
    Range(queue) \cup Range(sched.ready_items)
        \cup { r.item : r \in Range(sched.batch_results) }
        \cup { t.item : t \in DOMAIN tasks }

\* the clock at the most recent enqueue of a path that has an item
LastEnqueueMs(path) ==
    LET times == { item.enqueued_ms : item \in { i \in LiveItems : i.path = path } }
    IN CHOOSE m \in times : \A n \in times : n <= m

(***************************************************************************)
(* C3: in real (millisecond) time no item is drained before upload_delay_ms*)
(* has elapsed since the most recent enqueue of its path.                  *)
(***************************************************************************)
C3_DebounceInRealTime ==
    [][DrainStep =>
         \A item \in Range(sched'.ready_items) :
            now - LastEnqueueMs(item.path) >= sched.config.upload_delay_ms]_vars

(***************************************************************************)
(* C4: a drain removes exactly items with now_ms - timestamp*1000 >=       *)
(* upload_delay_ms (the delay of the iteration's config snapshot): every   *)
(* drained item satisfies it, every item that does not stays, a ready item *)
(* stays only when the batch is full, nothing else changes in the queue,   *)
(* and with a delay of 0 the first MAX_BATCH_SIZE items are drained.       *)
(***************************************************************************)
C4_DrainTakesReadyItems ==
    [][DrainStep =>
         LET delay == sched.config.upload_delay_ms
             taken == sched'.ready_items
             ripe(item) == now - item.timestamp * 1000 >= delay
         IN /\ \A item \in Range(taken) : ripe(item)
            /\ \A item \in Range(queue) : ~ripe(item) => item \in Range(queue')
            /\ \A item \in Range(queue') : ripe(item) => Len(taken) = MAX_BATCH_SIZE
            /\ Len(taken) <= MAX_BATCH_SIZE
            /\ Len(taken) + Len(queue') = Len(queue)
            /\ Range(taken) \cup Range(queue') = Range(queue)
            /\ delay = 0 =>
                 /\ taken = SubSeq(queue, 1, Len(taken))
                 /\ Len(taken) = IF Len(queue) < MAX_BATCH_SIZE THEN Len(queue)
                                  ELSE MAX_BATCH_SIZE]_vars

\* a drain under a delay has just taken a ready item and left one that is not
C4_Witness ==
    /\ sched.pc = "publish"
    /\ sched.config.upload_delay_ms > 0
    /\ sched.ready_items # <<>>
    /\ \E item \in Range(queue) :
         /\ now - item.timestamp * 1000 < sched.config.upload_delay_ms
         /\ \A r \in Range(sched.ready_items) : r.id < item.id

(***************************************************************************)
(* The retries under a running clock                                       *)
(***************************************************************************)
InitRetry == InitWith(Config(DelayMs, 2))

NextRetry ==
    \/ EnqueueFile({ <<"w", "a.txt">> }, MaxRetryEnqueues)
    \/ Tick
    \/ SchedSnapshot
    \/ SchedDrain
    \/ SchedPublish
    \/ SchedProbeRead(1..Len(sched.ready_items))
    \/ SchedProbeRequest("ok", NeedsUploadAll(sched.valid_items))
    \/ SchedResult
    \/ UploaderWith({"ok", "put_err"})

\* one file, debounced, whose PUT may fail, while the clock runs
SpecRetry == InitRetry /\ [][NextRetry]_vars

(***************************************************************************)
(* C10: when an upload attempt fails and the incremented retry_count is    *)
(* below 3, the item is appended to the queue with retry_count one higher  *)
(* and its timestamp set to the current time in seconds, no status is      *)
(* emitted and no counter moves; the attempt of an item is its             *)
(* retry_count + 1, so that an item that succeeds on attempt 3 was seen    *)
(* with retry_count 1 and 2; a successful attempt emits `uploaded`, then   *)
(* total_uploaded grows by 1, total_failed is unchanged and nothing is     *)
(* re-appended.                                                            *)
(***************************************************************************)
C10_RetryRequeuedWithFreshTimestamp ==
    [][\A t \in DOMAIN tasks :
         /\ (Finishes(t) /\ t.result # "ok" /\ t.item.retry_count + 1 < 3) =>
               /\ queue' = Append(queue, [t.item EXCEPT !.retry_count = @ + 1,
                                                        !.timestamp = now \div 1000])
               /\ emit' = NoEvent
               /\ progress' = progress
         /\ (Finishes(t) /\ t.result = "ok") =>
               /\ progress'.total_uploaded = progress.total_uploaded + 1
               /\ progress'.total_failed = progress.total_failed
               /\ queue' = queue
               /\ emit' = NoEvent
         /\ (t.pc = "io" /\ tasks' = Moved(tasks, t, [t EXCEPT !.pc = "returned",
                                                              !.result = "ok"])) =>
               emit' = Event(t.item.relative_path, STATUS_UPLOADED, "", t.item.id)
         /\ t.pc # "start" => t.item.attempts = t.item.retry_count + 1
      ]_vars

\* the third attempt of an item has succeeded after two failures, the second of
\* them after the clock reached a new second
C10_Witness ==
    \E t \in DOMAIN tasks :
        /\ t.pc = "returned" /\ t.result = "ok"
        /\ t.item.retry_count = 2 /\ t.item.attempts = 3
        /\ t.item.timestamp > 0
        /\ emit = Event(t.item.relative_path, STATUS_UPLOADED, "", t.item.id)

(***************************************************************************)
(* The probe and its verdicts under a clock that runs for seconds          *)
(***************************************************************************)
\* a second folder, watched later or named in a manual upload, with a file of
\* the same name: each file is enqueued with its own folder as base_path
ProbePaths ==
    IF next_id = 1 THEN { <<"w", "a.txt">> } ELSE { <<"w", "a.txt">>, <<"v", "a.txt">> }

EnqueueUnder(paths, max_items) ==
    \E p \in paths : Enqueue(p, <<Head(p)>>, EVENT_TYPE_MODIFIED, "file", max_items)

NextProbe ==
    \/ EnqueueUnder(ProbePaths, MaxProbeEnqueues)
    \/ Elapse(ProbeTickMs, MaxProbeTimeMs)
    \/ SchedSnapshot
    \/ SchedDrain
    \/ SchedPublish
    \/ ProbeRead
    \/ ProbeRequest
    \/ SchedWake(now)
    \/ SchedResult
    \/ UploaderWith({"ok"})

\* no debounce delay; any file unreadable, the probe failing or answering
\* anything; the sleep after a failed probe is timed by the clock
SpecProbe == InitPipeline /\ [][NextProbe]_vars

\* the step in which the probe returns an error to the scheduler
ProbeFails == sched.pc = "request" /\ sched'.pc = "sleep"

(***************************************************************************)
(* C11: when the batch probe fails, every item of the drained batch is     *)
(* appended to the queue as it was drained (same timestamp, same           *)
(* retry_count), no status is emitted, no counter moves, and the scheduler *)
(* does nothing until RETRY_DELAY_SECS have passed since the failure.      *)
(***************************************************************************)
C11_ProbeFailureRequeuesBatch ==
    [][/\ ProbeFails =>
            /\ queue' = queue \o sched.ready_items
            /\ emit' = NoEvent
            /\ progress' = progress
            /\ tasks' = tasks
            /\ sched'.wake = now + RETRY_DELAY_SECS * 1000
       /\ sched.pc = "sleep" =>
            \/ /\ sched'.pc = "sleep"
               /\ sched'.wake = sched.wake
               /\ sched'.ready_items = <<>>
            \/ /\ sched'.pc = "loop"
               /\ now >= sched.wake
               /\ UNCHANGED <<queue, progress, tasks>>
      ]_vars

\* a batch enqueued at time 0 and drained seconds later went back to the queue
\* with the timestamp of its enqueue, and RETRY_DELAY_SECS have passed since
C11_Witness ==
    /\ sched.pc = "sleep"
    /\ sched.wake = ProbeTickMs + RETRY_DELAY_SECS * 1000
    /\ now >= sched.wake
    /\ Len(queue) = 2
    /\ \A i \in DOMAIN queue :
         /\ queue[i].timestamp = 0
         /\ queue[i].retry_count = 0
         /\ queue[i].attempts = 0
    /\ progress.total_uploaded = 0
    /\ progress.total_failed = 0
    /\ tasks = EmptyBag

\* the scheduler handles the first of the remaining results of the batch
ResultStep ==
    /\ sched.pc = "results"
    /\ sched'.batch_results = Tail(sched.batch_results)

(***************************************************************************)
(* C12: a needs_upload verdict without upload_url starts no upload and     *)
(* takes no permit: the item the verdict is for is appended to the queue   *)
(* with its retry_count and timestamp unchanged, and no status is emitted  *)
(* for it.                                                                 *)
(***************************************************************************)
C12_MissingUrlRequeues ==
    [][(/\ ResultStep
        /\ Head(sched.batch_results).result.status = STATUS_NEEDS_UPLOAD
        /\ Head(sched.batch_results).result.upload_url = "none") =>
           /\ Head(sched.batch_results).item.id = Head(sched.batch_results).result.for_id
           /\ queue' = Append(queue, Head(sched.batch_results).item)
           /\ tasks' = tasks
           /\ sched'.permits = sched.permits
           /\ emit' = NoEvent
           /\ progress' = progress]_vars

(***************************************************************************)
(* C13: for an item whose probe verdict is `exists` no uploader task is    *)
(* started and no `uploading` is emitted: the verdict is handled with the  *)
(* item it is for, one `uploaded` status is emitted for that item,         *)
(* total_uploaded grows by 1, nothing is appended to the queue, and the    *)
(* item is then neither in the queue nor with the scheduler nor in a task. *)
(***************************************************************************)
C13_ExistsCountsAsUploaded ==
    [][(ResultStep /\ Head(sched.batch_results).result.status = STATUS_EXISTS) =>
          LET item == Head(sched.batch_results).item
              result == Head(sched.batch_results).result
          IN /\ item.id = result.for_id
             /\ tasks' = tasks
             /\ sched'.permits = sched.permits
             /\ emit' = Event(item.relative_path, STATUS_UPLOADED, "", item.id)
             /\ progress'.total_uploaded = progress.total_uploaded + 1
             /\ progress'.total_failed = progress.total_failed
             /\ queue' = queue
             /\ result.for_id \notin (QueueIds' \cup DrainedIds')]_vars

(***************************************************************************)
(* The steps of one upload attempt                                         *)
(***************************************************************************)
\* the uploader task t moves on to the position pc, with the result res
TaskMoves(t, pc, res) ==
    \E u \in DOMAIN tasks' :
        /\ u.item.id = t.item.id /\ u.pc = pc /\ u.result = res
        /\ tasks' = Moved(tasks, t, u)

TerminalStatuses == {STATUS_UPLOADED, STATUS_FAILED}

PendingIds ==
    HeldIds \cup { t.item.id : t \in { u \in DOMAIN tasks : u.result # "ok" } }

(***************************************************************************)
(* C15: once `uploaded` or `failed` has been emitted for an item, the item *)
(* is not in the queue and is never appended to it again: at the emission  *)
(* the item is neither in the queue nor with the scheduler nor in an       *)
(* attempt that could re-queue it, and whatever enters the queue is a new  *)
(* enqueue or an item that was still pending.                              *)
(***************************************************************************)
C15_TerminalItemsStayOut ==
    [][/\ emit'.status \in TerminalStatuses =>
            emit'.id \notin (QueueIds' \cup PendingIds')
       /\ QueueIds' \subseteq (QueueIds \cup PendingIds \cup {next_id})
       /\ PendingIds' \subseteq (QueueIds \cup PendingIds)
      ]_vars

\* the step is an enqueue call that queues an item
QueuedStep == next_id' = next_id + 1

(***************************************************************************)
(* C16: an enqueue of a path that has an item in the queue removes the     *)
(* earlier item and appends the new one at the tail, with a fresh          *)
(* timestamp and retry_count 0, so that the queue length is unchanged; an  *)
(* enqueue of a path not in the queue makes the queue one longer; the      *)
(* other items and their order are unchanged.                              *)
(***************************************************************************)
C16_EnqueueReplacesEarlierItem ==
    [][QueuedStep =>
         LET new == queue'[Len(queue')]
             others == SelectSeq(queue, LAMBDA item : item.path # new.path)
         IN /\ new.id = next_id
            /\ new.timestamp = now \div 1000
            /\ new.retry_count = 0
            /\ queue' = Append(others, new)
            /\ Len(queue') = IF \E item \in Range(queue) : item.path = new.path
                             THEN Len(queue)
                             ELSE Len(queue) + 1]_vars

(***************************************************************************)
(* Ingestion under every setting of the switches                           *)
(***************************************************************************)
\* the configs the front-end stores: uploads on or off, existing files taken or
\* not, *.tmp ignored, no debounce delay
IngestConfigs ==
    { [DefaultConfig EXCEPT !.enabled = e, !.ignore_existing_files = x,
                            !.ignored_patterns = <<"*.tmp">>,
                            !.upload_delay_ms = 0, !.max_concurrent_uploads = 2] :
        e \in BOOLEAN, x \in BOOLEAN }

\* an enqueue call: the watcher (modified), the initial scan (initial) or a manual
\* upload, of a file, a directory or a path that cannot be examined
EnqueueCall ==
    \E p \in AbsPaths : \E event_type \in EventTypes : \E stat \in StatOutcomes :
        Enqueue(p, BasePath, event_type, stat, MaxIngestEnqueues)

NextIngest ==
    \/ EnqueueCall
    \/ \E cfg \in IngestConfigs : set_upload_config(cfg)
    \/ SchedSnapshot
    \/ SchedDrain
    \/ SchedPublish
    \/ SchedProbeRead(1..Len(sched.ready_items))
    \/ SchedProbeRequest("ok", NeedsUploadAll(sched.valid_items))
    \/ SchedResult
    \/ UploaderWith({"ok"})

\* the program from its start, with every kind of enqueue call and every change
\* of the switches; every file is readable and uploaded without error
SpecIngest == Init /\ [][NextIngest]_vars

(***************************************************************************)
(* C17: while `enabled` is false every enqueue call, of any event kind and *)
(* any path, emits one `ignored` status for the path and leaves the queue  *)
(* unchanged; no step queues an item.                                      *)
(***************************************************************************)
C17_DisabledEnqueueIgnored ==
    [][~config.enabled =>
         /\ next_id' = next_id
         /\ emit'.status # STATUS_QUEUED
         /\ \A p \in AbsPaths : \A event_type \in EventTypes : \A stat \in StatOutcomes :
              Enqueue(p, BasePath, event_type, stat, MaxIngestEnqueues) =>
                 /\ emit' = Event(get_relative_path(p, BasePath), STATUS_IGNORED, "", 0)
                 /\ queue' = queue]_vars

\* uploads are off, an item queued earlier is still in the queue, and an enqueue
\* call has just been answered with `ignored`
C17_Witness ==
    /\ ~config.enabled
    /\ emit.status = STATUS_IGNORED
    /\ emit.relative_path = <<"a.txt">>
    /\ Len(queue) = 1
    /\ queue[1].relative_path = <<"a.txt">>

(***************************************************************************)
(* C18: while `enabled` is false the scheduler idles: it removes no item   *)
(* from the queue, sends no probe and dispatches no upload, so that the    *)
(* items in the queue stay there.                                          *)
(***************************************************************************)
C18_DisabledSchedulerIdles ==
    [][~config.enabled =>
         /\ ~(DrainStep /\ sched'.ready_items # <<>>)
         /\ ~(sched.pc = "probe" /\ sched'.pc = "request")
         /\ NumTasks' <= NumTasks]_vars

(***************************************************************************)
(* C19: an enqueue call for a relative path that matches one of the        *)
(* configured ignored_patterns emits one `ignored` status for the path and *)
(* leaves the queue as it is, however often it is repeated and whatever    *)
(* the event kind, the other settings and the kind of the path.            *)
(***************************************************************************)
C19_IgnoredPatternNeverQueued ==
    [][\A p \in AbsPaths : \A event_type \in EventTypes : \A stat \in StatOutcomes :
         LET relative_path == get_relative_path(p, BasePath) IN
         (/\ Enqueue(p, BasePath, event_type, stat, MaxIngestEnqueues)
          /\ \E i \in DOMAIN config.ignored_patterns :
                PatternMatches(config.ignored_patterns[i], relative_path)) =>
            /\ emit' = Event(relative_path, STATUS_IGNORED, "", 0)
            /\ queue' = queue
            /\ next_id' = next_id]_vars

\* uploads are on and modified files are taken: the *.tmp file has just been
\* answered with `ignored` while the other file is in the queue
C19_Witness ==
    /\ config.enabled
    /\ ~config.ignore_existing_files
    /\ "*.tmp" \in Range(config.ignored_patterns)
    /\ emit = Event(<<"b.tmp">>, STATUS_IGNORED, "", 0)
    /\ Len(queue) = 1
    /\ queue[1].relative_path = <<"a.txt">>

(***************************************************************************)
(* Existing files left alone: ignore_existing_files = true                 *)
(***************************************************************************)
InitExisting == InitWith([Config(0, 2) EXCEPT !.ignore_existing_files = TRUE])

\* the initial scan and the watcher report files of the folder
EnqueueExisting ==
    \E p \in AbsPaths : \E event_type \in EventTypes :
        Enqueue(p, BasePath, event_type, "file", MaxExistingEnqueues)

\* the scheduler with every file readable and the server asking for every file
SchedulerUploading ==
    \/ SchedSnapshot
    \/ SchedDrain
    \/ SchedPublish
    \/ SchedProbeRead(1..Len(sched.ready_items))
    \/ SchedProbeRequest("ok", NeedsUploadAll(sched.valid_items))
    \/ SchedResult

NextExisting ==
    \/ EnqueueExisting
    \/ SchedulerUploading
    \/ UploaderWith({"ok"})

\* the scheduler task loops for ever and every spawned task runs to its end
SpecExisting ==
    /\ InitExisting
    /\ [][NextExisting]_vars
    /\ WF_vars(SchedulerUploading)
    /\ WF_vars(UploaderWith({"ok"}))

(***************************************************************************)
(* C20: with ignore_existing_files = true an enqueue call of the initial   *)
(* scan emits `ignored` and leaves the queue unchanged, while an enqueue   *)
(* call for a modification of the same path emits `queued` and puts the    *)
(* item at the tail of the queue; the item is then uploaded: `queued` for  *)
(* a path leads to `uploaded` for that path.                               *)
(***************************************************************************)
C20_InitialIgnoredModifiedUploaded ==
    /\ [][\A p \in AbsPaths :
            LET relative_path == get_relative_path(p, BasePath) IN
            /\ (config.ignore_existing_files
                 /\ Enqueue(p, BasePath, EVENT_TYPE_INITIAL, "file", MaxExistingEnqueues)) =>
                   /\ emit' = Event(relative_path, STATUS_IGNORED, "", 0)
                   /\ queue' = queue
            /\ (config.ignore_existing_files
                 /\ Enqueue(p, BasePath, EVENT_TYPE_MODIFIED, "file", MaxExistingEnqueues)) =>
                   /\ emit' = Event(relative_path, STATUS_QUEUED, "", next_id)
                   /\ queue' # <<>>
                   /\ queue'[Len(queue')].path = p
                   /\ queue'[Len(queue')].id = next_id]_vars
    /\ \A p \in AbsPaths :
          LET relative_path == get_relative_path(p, BasePath) IN
          (emit.status = STATUS_QUEUED /\ emit.relative_path = relative_path)
             ~> (emit.status = STATUS_UPLOADED /\ emit.relative_path = relative_path)

\* existing files are left alone, and the file whose modification was queued has
\* just been uploaded
C20_Witness ==
    /\ config.ignore_existing_files
    /\ emit = Event(<<"a.txt">>, STATUS_UPLOADED, "", 1)
    /\ queue = <<>>
    /\ progress.total_uploaded = 0
    /\ \E t \in DOMAIN tasks : t.pc = "returned" /\ t.result = "ok" /\ t.item.id = 1

(***************************************************************************)
(* The outcomes of an enqueue call                                         *)
(***************************************************************************)
\* the configs the front-end stores: uploads on or off, existing files taken or
\* not, *.tmp ignored or nothing ignored, no debounce delay
OutcomeConfigs ==
    { [DefaultConfig EXCEPT !.enabled = e, !.ignore_existing_files = x,
                            !.ignored_patterns = pats,
                            !.upload_delay_ms = 0, !.max_concurrent_uploads = 2] :
        e \in BOOLEAN, x \in BOOLEAN, pats \in { <<"*.tmp">>, <<>> } }

NextOutcome ==
    \/ \E p \in AbsPaths : \E event_type \in EventTypes : \E stat \in StatOutcomes :
          Enqueue(p, BasePath, event_type, stat, MaxOutcomeEnqueues)
    \/ \E cfg \in OutcomeConfigs : set_upload_config(cfg)
    \/ SchedSnapshot
    \/ SchedDrain
    \/ SchedPublish
    \/ SchedProbeRead(1..Len(sched.ready_items))
    \/ SchedProbeRequest("ok", ExistsAll(sched.valid_items))
    \/ SchedResult

\* every kind of enqueue call under every setting, while the scheduler drains the
\* queue; the server holds every file already, so that no upload is started
SpecOutcome == Init /\ [][NextOutcome]_vars

(***************************************************************************)
(* C21: every enqueue call has exactly one of three outcomes, the checks   *)
(* being made in the order enabled, initial-suppression, ignore pattern,   *)
(* stat: one `ignored` status and the queue unchanged (uploads disabled,   *)
(* an initial event suppressed, an ignored pattern, or a path that is not  *)
(* a regular file); no status and the queue unchanged (the stat of the     *)
(* path fails); one `queued` status and an item for the path with          *)
(* retry_count 0 at the tail of the queue.                                 *)
(***************************************************************************)
C21_EnqueueOutcomes ==
    [][\A p \in AbsPaths : \A event_type \in EventTypes : \A stat \in StatOutcomes :
         Enqueue(p, BasePath, event_type, stat, MaxOutcomeEnqueues) =>
            LET relative_path == get_relative_path(p, BasePath)
                refused ==
                    \/ ~config.enabled
                    \/ config.ignore_existing_files /\ event_type = EVENT_TYPE_INITIAL
                    \/ \E i \in DOMAIN config.ignored_patterns :
                          PatternMatches(config.ignored_patterns[i], relative_path)
            IN IF refused \/ stat = "dir"
               THEN /\ emit' = Event(relative_path, STATUS_IGNORED, "", 0)
                    /\ queue' = queue
               ELSE IF stat = "err"
               THEN /\ emit' = NoEvent
                    /\ queue' = queue
               ELSE /\ emit'.status = STATUS_QUEUED
                    /\ emit'.relative_path = relative_path
                    /\ queue' # <<>>
                    /\ queue'[Len(queue')].path = p
                    /\ queue'[Len(queue')].retry_count = 0
                    /\ queue'[Len(queue')].id = emit'.id
                    /\ \A i \in 1..(Len(queue') - 1) : queue'[i].path # p]_vars

\* nothing is ignored: the second file has just been queued behind the first
C21_Witness ==
    /\ config.enabled
    /\ config.ignored_patterns = <<>>
    /\ emit = Event(<<"b.tmp">>, STATUS_QUEUED, "", 2)
    /\ Len(queue) = 2
    /\ queue[1].path = <<"w", "a.txt">>
    /\ queue[2].path = <<"w", "b.tmp">>
    /\ queue[2].retry_count = 0

(***************************************************************************)
(* C22: a single drain never removes more than MAX_BATCH_SIZE items: when  *)
(* MAX_BATCH_SIZE + 1 items are ready, the drain takes exactly the first   *)
(* MAX_BATCH_SIZE of them in queue order and leaves the last one in the    *)
(* queue; a drain that finds no more than MAX_BATCH_SIZE ready items, as   *)
(* the next one does, takes them all.                                      *)
(***************************************************************************)
C22_DrainTakesAtMostBatch ==
    [][DrainStep =>
         LET ripe == { i \in DOMAIN queue :
                         now - queue[i].timestamp * 1000 >= sched.config.upload_delay_ms }
             nth(k) == CHOOSE i \in ripe : Cardinality({ j \in ripe : j <= i }) = k
             taken == sched'.ready_items
         IN /\ Len(taken) <= MAX_BATCH_SIZE
            /\ Len(queue) - Len(queue') <= MAX_BATCH_SIZE
            /\ Cardinality(ripe) = MAX_BATCH_SIZE + 1 =>
                 /\ taken = [k \in 1..MAX_BATCH_SIZE |-> queue[nth(k)]]
                 /\ Len(queue') = Len(queue) - MAX_BATCH_SIZE
                 /\ \E i \in DOMAIN queue' : queue'[i] = queue[nth(MAX_BATCH_SIZE + 1)]
            /\ Cardinality(ripe) <= MAX_BATCH_SIZE =>
                 /\ taken = [k \in 1..Cardinality(ripe) |-> queue[nth(k)]]
                 /\ Len(queue') = Len(queue) - Cardinality(ripe)]_vars

\* three items were enqueued at time 0 under a delay; the drain made when the
\* delay had passed took the first two and left the third
C22_Witness ==
    /\ sched.pc = "publish"
    /\ sched.config.upload_delay_ms = DelayMs
    /\ now = DelayMs
    /\ Len(sched.ready_items) = MAX_BATCH_SIZE
    /\ \A k \in 1..MAX_BATCH_SIZE : sched.ready_items[k].id = k
    /\ Len(queue) = 1
    /\ queue[1].id = MAX_BATCH_SIZE + 1
    /\ queue[1].enqueued_ms = 0

(***************************************************************************)
(* The queue cleared while uploads are in flight                           *)
(***************************************************************************)
NextClear ==
    \/ EnqueueFile(PipelinePaths, MaxClearEnqueues)
    \/ clear_upload_queue
    \/ SchedSnapshot
    \/ SchedDrain
    \/ SchedPublish
    \/ SchedProbeRead(1..Len(sched.ready_items))
    \/ SchedProbeRequest("ok", NeedsUploadAll(sched.valid_items))
    \/ SchedResult
    \/ UploaderWith({"ok", "put_err"})

\* the front-end clears the queue at any moment; every file is read and asked
\* for, and a PUT may fail
SpecClear == InitPipeline /\ [][NextClear]_vars

\* the queue loses items in a step that is neither a drain nor an enqueue
ClearStep ==
    /\ Len(queue') < Len(queue)
    /\ ~DrainStep
    /\ next_id' = next_id

(***************************************************************************)
(* C23: clear_upload_queue leaves the queue empty and changes neither      *)
(* total_uploaded nor total_failed; it does not touch the items the        *)
(* scheduler has drained nor the uploads that are running, and these go on *)
(* to their normal outcome whether or not the queue has been cleared: a    *)
(* drained item that needs an upload gets its task, and a task ends with   *)
(* its upload counted, or with its item re-appended to the queue, or with  *)
(* `failed` emitted and counted.                                           *)
(***************************************************************************)
C23_ClearLeavesInFlightAlone ==
    [][/\ ClearStep =>
            /\ queue' = <<>>
            /\ progress'.total_uploaded = progress.total_uploaded
            /\ progress'.total_failed = progress.total_failed
            /\ sched' = sched
            /\ tasks' = tasks
       /\ (ResultStep /\ Head(sched.batch_results).result.upload_url = "url") =>
            \E t \in DOMAIN tasks' :
                /\ t.item = Head(sched.batch_results).item
                /\ tasks' = tasks (+) SetToBag({t})
       /\ \A t \in DOMAIN tasks :
            Finishes(t) =>
               IF t.result = "ok"
               THEN /\ progress'.total_uploaded = progress.total_uploaded + 1
                    /\ queue' = queue
               ELSE IF t.item.retry_count + 1 < MAX_RETRY_COUNT
               THEN /\ queue' = Append(queue, [t.item EXCEPT !.retry_count = @ + 1,
                                                             !.timestamp = now \div 1000])
                    /\ progress' = progress
               ELSE /\ emit' = Event(t.item.relative_path, STATUS_FAILED, t.result,
                                     t.item.id)
                    /\ progress'.total_failed = progress.total_failed + 1
                    /\ queue' = queue
      ]_vars

\* the second file was in the queue when the queue was cleared, while the first
\* was in flight: the first one's PUT failed and the item is back, alone, in the
\* queue for its retry
C23_Witness ==
    /\ next_id = 3
    /\ Len(queue) = 1
    /\ queue[1].id = 1
    /\ queue[1].retry_count = 1
    /\ tasks = EmptyBag
    /\ DrainedIds = {}
    /\ progress.total_uploaded = 0
    /\ progress.total_failed = 0

(***************************************************************************)
(* The progress counters under every operation                             *)
(***************************************************************************)
NextCounters ==
    \/ EnqueueFile(PipelinePaths, MaxCounterEnqueues)
    \/ clear_upload_queue
    \/ \E cap \in {1, 2} : set_upload_config(Config(0, cap))
    \/ SchedSnapshot
    \/ SchedDrain
    \/ SchedPublish
    \/ SchedProbeRead(1..Len(sched.ready_items))
    \/ SchedProbeRequest("err", <<>>)
    \/ SchedProbeRequest("ok", ExistsAll(sched.valid_items))
    \/ SchedProbeRequest("ok", NeedsUploadAll(sched.valid_items))
    \/ SchedWakeUntimed
    \/ SchedResult
    \/ UploaderWith({"ok", "put_err"})

\* enqueue calls, clear_upload_queue and set_upload_config at any moment; the
\* probe fails, or finds every file on the server, or asks for every file; a
\* PUT may fail
SpecCounters == InitPipeline /\ [][NextCounters]_vars

(***************************************************************************)
(* C24: total_uploaded and total_failed, and so their sum, never decrease: *)
(* no step of the scheduler, of an uploader task, of an enqueue call, of   *)
(* clear_upload_queue or of set_upload_config lowers either counter.       *)
(***************************************************************************)
C24_CountersNeverDecrease ==
    [][/\ progress'.total_uploaded >= progress.total_uploaded
       /\ progress'.total_failed >= progress.total_failed
       /\ progress'.total_uploaded + progress'.total_failed
            >= progress.total_uploaded + progress.total_failed]_vars

\* the cap has been changed and the last attempt of an item has failed and has
\* been counted
C24_Witness ==
    /\ progress.total_failed = 1
    /\ emit.status = STATUS_FAILED
    /\ config.max_concurrent_uploads = 1
    /\ sched.last_max_concurrent = 1
    /\ tasks = EmptyBag

(***************************************************************************)
(* C25: the total_queued field of the progress state (what                 *)
(* get_upload_progress returns) equals the length of the upload queue      *)
(* (what get_queue_size returns), after any sequence of enqueue calls,     *)
(* clear_upload_queue, drains and re-appends.                              *)
(***************************************************************************)
C25_TotalQueuedIsQueueLength == progress.total_queued = Len(queue)

(***************************************************************************)
(* Uploads whose metadata cannot be finalized                              *)
(***************************************************************************)
\* the uploader tasks when update_file_metadata fails after every PUT that has
\* succeeded; a PUT may fail as well
UploaderFinalizeFails ==
    \E t \in DOMAIN tasks :
        \/ UploadStart(t)
        \/ UploadFileReturn(t, "ok", "err")
        \/ UploadFileReturn(t, "put_err", "ok")
        \/ UploadTaskFinish(t)

NextFinalize ==
    \/ EnqueueFile(PipelinePaths, MaxFinalizeEnqueues)
    \/ SchedulerUploading
    \/ UploaderFinalizeFails

SpecFinalize == InitPipeline /\ [][NextFinalize]_vars

(***************************************************************************)
(* C26: when the PUT of a file succeeds and the metadata-finalize call     *)
(* fails, the upload counts as a success: upload_file emits `uploaded` and *)
(* returns Ok, total_uploaded grows by 1, total_failed is unchanged, the   *)
(* item keeps its retry_count and is not re-appended to the queue, and no  *)
(* `failed` status is emitted.                                             *)
(***************************************************************************)
C26_FinalizeFailureIsSuccess ==
    [][\A t \in DOMAIN tasks :
         /\ UploadFileReturn(t, "ok", "err") =>
               /\ emit' = Event(t.item.relative_path, STATUS_UPLOADED, "", t.item.id)
               /\ tasks' = Moved(tasks, t, [t EXCEPT !.pc = "returned", !.result = "ok"])
               /\ queue' = queue
               /\ progress' = progress
         /\ (Finishes(t) /\ t.result = "ok") =>
               /\ progress'.total_uploaded = progress.total_uploaded + 1
               /\ progress'.total_failed = progress.total_failed
               /\ queue' = queue
               /\ emit'.status # STATUS_FAILED
         /\ t.result \in {"", "ok", "put_err"}
      ]_vars

\* the first attempt of the only item enqueued has ended after a PUT that
\* succeeded and a finalize that failed: the upload is counted and the item gone
C26_Witness ==
    /\ next_id = 2
    /\ progress.total_uploaded = 1
    /\ progress.total_failed = 0
    /\ queue = <<>>
    /\ tasks = EmptyBag
    /\ DrainedIds = {}
    /\ emit = NoEvent

\* the uploads in flight that hold a permit of the scheduler's current limiter
NumCurrent ==
    LET current == { t \in DOMAIN tasks : t.cur }
    IN BagCardinality([t \in current |-> tasks[t]])

\* the scheduler passes the top of its loop with uploads enabled
IterationStep == sched.pc = "loop" /\ sched'.pc = "drain"

(***************************************************************************)
(* C27: after set_upload_config has changed max_concurrent_uploads, the    *)
(* scheduler replaces its limiter by one of the new cap at its next        *)
(* enabled iteration; the uploads holding permits of the old limiter run   *)
(* on untouched and give their permits back to the old limiter; the        *)
(* uploads dispatched under the new limiter never exceed its cap among     *)
(* themselves; and once the uploads dispatched before the rebuild have     *)
(* finished, with the limiter built for the configured cap, the uploads in *)
(* flight are at most that cap.                                            *)
(***************************************************************************)
C27_LimiterRebuiltOnCapChange ==
    [][/\ IterationStep =>
            /\ sched'.last_max_concurrent = config.max_concurrent_uploads
            /\ NumTasks' = NumTasks
            /\ { <<t.item, t.pc, t.result>> : t \in DOMAIN tasks' }
                 = { <<t.item, t.pc, t.result>> : t \in DOMAIN tasks }
            /\ IF config.max_concurrent_uploads # sched.last_max_concurrent
               THEN /\ sched'.permits = config.max_concurrent_uploads
                    /\ NumCurrent' = 0
               ELSE /\ sched'.permits = sched.permits
                    /\ tasks' = tasks
       /\ \A t \in DOMAIN tasks :
            (Finishes(t) /\ ~t.cur) => sched'.permits = sched.permits
       /\ NumCurrent' + sched'.permits = sched'.last_max_concurrent
       /\ NumCurrent' <= sched'.last_max_concurrent
       /\ (sched'.last_max_concurrent = config'.max_concurrent_uploads
             /\ NumCurrent' = NumTasks') =>
                NumTasks' <= config'.max_concurrent_uploads
      ]_vars

\* the cap was lowered from 2 to 1 while two uploads were in flight: the new
\* limiter has dispatched one upload more, and three are in flight under a cap
\* of 1 until the two older ones finish
C27_Witness ==
    /\ config.max_concurrent_uploads = 1
    /\ sched.last_max_concurrent = 1
    /\ sched.permits = 0
    /\ NumCurrent = 1
    /\ NumTasks = 3

(***************************************************************************)
(* The scheduler kept running                                              *)
(***************************************************************************)
\* the values of max_concurrent_uploads the front-end stores: the field is a
\* usize and set_upload_config takes any value of it
LiveCaps == {0, 1}

\* a file that has no item in the queue is created or modified
EnqueueNew ==
    \E p \in MorePaths :
        /\ \A item \in Range(queue) : item.path # p
        /\ Enqueue(p, BasePath, EVENT_TYPE_MODIFIED, "file", MaxLiveEnqueues)

\* the scheduler with every file readable, the probe failing or the server
\* asking for every file
SchedulerLive ==
    \/ SchedulerUploading
    \/ SchedProbeRequest("err", <<>>)
    \/ SchedWakeUntimed

UploaderLive == UploaderWith({"ok", "put_err"})

NextLive ==
    \/ EnqueueNew
    \/ \E cap \in LiveCaps : set_upload_config(Config(0, cap))
    \/ SchedulerLive
    \/ UploaderLive

\* uploads stay enabled; the scheduler task is always scheduled again, every
\* sleep ends, and every HTTP call and every spawned task returns
SpecLive ==
    /\ InitSerial
    /\ [][NextLive]_vars
    /\ WF_vars(SchedulerLive)
    /\ WF_vars(UploaderLive)

\* the scheduler has drained the item and is about to probe it
Probing(id) ==
    /\ sched.pc = "probe"
    /\ \E item \in Range(sched.ready_items) : item.id = id

(***************************************************************************)
(* C28: the scheduler never stops and never blocks for ever: whatever      *)
(* probe failures, upload failures and set_upload_config calls came        *)
(* before, and with every HTTP call and every upload task returning, an    *)
(* item that is in the queue while uploads are enabled is eventually       *)
(* drained and probed.                                                     *)
(***************************************************************************)
C28_EnqueuedItemEventuallyProbed ==
    \A id \in 1..MaxLiveEnqueues : (id \in QueueIds) ~> Probing(id)

(***************************************************************************)
(* The directory watcher (lib.rs): start_watching and stop_watching        *)
(***************************************************************************)
\* Both are async commands run by the worker threads of the runtime: calls
\* overlap, and a call holds the lock of the watcher state only inside its
\* two blocks.  A watcher is named by the number of the call that created it.
Call(c, pc) == [start_calls EXCEPT ![c].pc = pc]

\* the first block: *watcher = None, which drops the watcher stored
start_watching_begin ==
    /\ Len(start_calls) < MaxStarts
    /\ watcher_state' = 0
    /\ watching' = watching \ {watcher_state}
    /\ start_calls' = Append(start_calls, [pc |-> "capture"])
    /\ emit' = NoEvent
    /\ UNCHANGED <<now, config, queue, progress, sched, tasks, next_id, emitted, lock_vars,
                   heartbeat_vars>>

\* capture_initial_contents: the walk of the folder, which holds the file
\* /w/a.txt, or fails in read_dir, and then start_watching returns the error
capture_initial_contents(c, walk) ==
    /\ c \in DOMAIN start_calls
    /\ start_calls[c].pc = "capture"
    /\ IF walk = "err"
       THEN /\ start_calls' = Call(c, "err")
            /\ emit' = NoEvent
            /\ UNCHANGED <<now, config, queue, progress, sched, tasks, next_id, emitted, lock_vars,
                           heartbeat_vars>>
       ELSE /\ add_to_upload_queue_with_event_type(<<"w", "a.txt">>, BasePath,
                    EVENT_TYPE_INITIAL, "file", MaxWatchEnqueues)
            /\ start_calls' = Call(c, "create")
    /\ UNCHANGED <<watcher_state, watching>>

\* notify::recommended_watcher(..) and watcher.watch(..): on success the new
\* watcher is running, held by the call; on an error the call returns it
create_watcher(c, res) ==
    /\ c \in DOMAIN start_calls
    /\ start_calls[c].pc = "create"
    /\ IF res = "err"
       THEN /\ start_calls' = Call(c, "err")
            /\ UNCHANGED watching
       ELSE /\ start_calls' = Call(c, "store")
            /\ watching' = watching \cup {c}
    /\ emit' = NoEvent
    /\ UNCHANGED <<now, config, queue, progress, sched, tasks, next_id, emitted, lock_vars,
                   heartbeat_vars, watcher_state>>

\* the second block: *watcher_state = Some(watcher), which drops the one stored
store_watcher(c) ==
    /\ c \in DOMAIN start_calls
    /\ start_calls[c].pc = "store"
    /\ watcher_state' = c
    /\ watching' = watching \ {watcher_state}
    /\ start_calls' = Call(c, "ok")
    /\ emit' = NoEvent
    /\ UNCHANGED <<now, config, queue, progress, sched, tasks, next_id, emitted, lock_vars,
                   heartbeat_vars>>

\* *watcher = None
stop_watching ==
    /\ watcher_state' = 0
    /\ watching' = watching \ {watcher_state}
    /\ emit' = NoEvent
    /\ UNCHANGED <<now, config, queue, progress, sched, tasks, next_id, emitted, lock_vars,
                   heartbeat_vars, start_calls>>

\* the callback of a running watcher: a file created or modified is enqueued
watcher_event(w) ==
    /\ w \in watching
    /\ \E p \in AbsPaths : \E stat \in StatOutcomes :
         Enqueue(p, BasePath, EVENT_TYPE_MODIFIED, stat, MaxWatchEnqueues)

NextWatch ==
    \/ start_watching_begin
    \/ \E c \in DOMAIN start_calls : \E walk \in {"ok", "err"} :
         capture_initial_contents(c, walk)
    \/ \E c \in DOMAIN start_calls : \E res \in {"ok", "err"} : create_watcher(c, res)
    \/ \E c \in DOMAIN start_calls : store_watcher(c)
    \/ stop_watching
    \/ \E w \in watching : watcher_event(w)

\* the front-end starts and stops watching at any moment
SpecWatch == Init /\ [][NextWatch]_vars

(***************************************************************************)
(* C29: at most one directory watcher exists at any time, and a watcher    *)
(* that is stored is the one that exists, under any interleaving of        *)
(* start_watching and stop_watching calls.                                 *)
(***************************************************************************)
C29_AtMostOneWatcher ==
    /\ Cardinality(watching) <= 1
    /\ watcher_state # 0 => watching = {watcher_state}

(***************************************************************************)
(* C30: a drain takes ready items in queue order and leaves every item     *)
(* that is not ready in the queue; the items left keep their relative      *)
(* order, and no item other than the drained ones is removed or modified.  *)
(***************************************************************************)
C30_DrainKeepsOrder ==
    [][DrainStep =>
         LET taken == sched'.ready_items
             delay == sched.config.upload_delay_ms
         IN \E S \in SUBSET DOMAIN queue :
              LET T == DOMAIN queue \ S
                  nth(X, k) == CHOOSE i \in X : Cardinality({ j \in X : j <= i }) = k
              IN /\ taken = [k \in 1..Cardinality(S) |-> queue[nth(S, k)]]
                 /\ queue' = [k \in 1..Cardinality(T) |-> queue[nth(T, k)]]
                 /\ \A i \in S : now - queue[i].timestamp * 1000 >= delay
                 /\ \A i \in DOMAIN queue :
                      now - queue[i].timestamp * 1000 < delay => i \in T]_vars

\* the first item, enqueued a second ago, has just been drained, alone: the two
\* items enqueued in this instant are not ready and are left in their order
C30_Witness ==
    /\ sched.pc = "publish"
    /\ emit = NoEvent
    /\ Len(sched.ready_items) = 1
    /\ sched.ready_items[1].id = 1
    /\ Len(queue) = 2
    /\ queue[1].id = 2 /\ queue[2].id = 3
    /\ \A i \in DOMAIN queue :
         /\ queue[i].enqueued_ms = now
         /\ now - queue[i].timestamp * 1000 < sched.config.upload_delay_ms

(***************************************************************************)
(* C31: the status events of an item follow the per-item state machine:    *)
(* `uploading` is emitted only for an item that was queued, has been       *)
(* drained and is dispatched; `uploaded` after a PUT and `failed` are      *)
(* emitted only by an attempt that has emitted `uploading`; `failed` is    *)
(* emitted only when the retries are exhausted; and after a terminal       *)
(* status the item is nowhere in the pipeline where a further status could *)
(* be emitted for it, nor does it come back: only a new enqueue of the     *)
(* path brings an item, a new one, into the pipeline.                      *)
(***************************************************************************)
C31_StatusStateMachine ==
    [][/\ emit'.status = STATUS_UPLOADING =>
            /\ emit'.id < next_id
            /\ \E t \in DOMAIN tasks :
                 t.pc = "start" /\ t.item.id = emit'.id /\ TaskMoves(t, "io", "")
       /\ emit'.status = STATUS_UPLOADED =>
            \/ \E t \in DOMAIN tasks :
                 /\ t.pc = "io" /\ t.item.id = emit'.id /\ t.item.attempts >= 1
                 /\ TaskMoves(t, "returned", "ok")
            \/ /\ ResultStep
               /\ Head(sched.batch_results).result.status = STATUS_EXISTS
               /\ Head(sched.batch_results).item.id = emit'.id
       /\ emit'.status = STATUS_FAILED =>
            \E t \in DOMAIN tasks :
                /\ Finishes(t) /\ t.item.id = emit'.id /\ t.result # "ok"
                /\ t.item.attempts >= 1
                /\ t.item.retry_count + 1 >= MAX_RETRY_COUNT
       /\ emit'.status \in TerminalStatuses =>
            emit'.id \notin (QueueIds' \cup PendingIds')
       /\ (QueueIds' \cup PendingIds') \subseteq (QueueIds \cup PendingIds \cup {next_id})
      ]_vars

(***************************************************************************)
(* The mutexes of upload.rs: who locks what, and where it is released      *)
(***************************************************************************)
\* What a thread does on the mutexes, in program order: lock(), the drop of the
\* guard, and the await points in between.
Lock(m) == [op |-> "lock", on |-> m]
Unlock(m) == [op |-> "unlock", on |-> m]
Await(what) == [op |-> "await", on |-> what]

\* a guard that outlives the critical section it was taken for
GuardKept(m, body) == <<Lock(m)>> \o body

\* let guard = m.lock().unwrap(); body; the guard is dropped at the end of its
\* block, or of the statement when it is a temporary
Guard(m, body) == <<Lock(m)>> \o body \o <<Unlock(m)>>

\* the queue length read under the queue lock while the progress is written
UpdateProgressQueueFirst == Guard("upload_queue", Guard("upload_progress", <<>>))

\* let config = upload_config.lock().unwrap().clone();
SnapshotConfig == Guard("upload_config", <<>>)

\* { let mut progress = upload_progress.lock().unwrap();
\*   let queue_len = upload_queue.lock().unwrap().len(); .. }
UpdateProgress == Guard("upload_progress", Guard("upload_queue", <<>>))

\* The code of each thread cut at its branches: the operations of a segment,
\* and the segments that can follow it.
Segments ==
    [ \* process_upload_queue
      loop |-> [ops |-> SnapshotConfig, next |-> {"disabled", "drain"}],
      disabled |-> [ops |-> <<Await("sleep")>>, next |-> {"loop"}],
      drain |-> [ops |-> Guard("upload_queue", <<>>),
                 next |-> {"publish", "idle"}],
      idle |-> [ops |-> <<Await("sleep")>>, next |-> {"loop"}],
      publish |-> [ops |-> UpdateProgress \o <<Await("probe")>>,
                   next |-> {"probe_failed", "exists", "missing_url", "spawn",
                             "batch_done"}],
      probe_failed |-> [ops |-> Guard("upload_queue", <<>>) \o <<Await("sleep")>>,
                        next |-> {"loop"}],
      exists |-> [ops |-> Guard("upload_progress", <<>>),
                  next |-> {"exists", "missing_url", "spawn", "batch_done"}],
      missing_url |-> [ops |-> Guard("upload_queue", <<>>),
                       next |-> {"exists", "missing_url", "spawn", "batch_done"}],
      spawn |-> [ops |-> <<Await("acquire_owned"), Await("sleep")>>,
                 next |-> {"exists", "missing_url", "spawn", "batch_done"}],
      batch_done |-> [ops |-> <<Await("sleep")>>, next |-> {"loop"}],
      \* an uploader task
      upload_file |-> [ops |-> <<Await("read"), Await("put"), Await("metadata")>>,
                       next |-> {"task_ok", "task_retry", "task_failed"}],
      task_ok |-> [ops |-> UpdateProgress, next |-> {"upload_file"}],
      task_retry |-> [ops |-> Guard("upload_queue", <<>>), next |-> {"upload_file"}],
      task_failed |-> [ops |-> UpdateProgress, next |-> {"upload_file"}],
      \* add_to_upload_queue_with_event_type, called by the watcher callback
      enqueue |-> [ops |-> SnapshotConfig, next |-> {"enqueue", "push"}],
      push |-> [ops |-> Guard("upload_queue", <<>>), next |-> {"enqueue"}],
      \* the commands
      command |-> [ops |-> <<>>,
                   next |-> {"get_upload_config", "set_upload_config",
                             "get_upload_progress", "clear_upload_queue",
                             "get_queue_size", "trigger_manual_upload",
                             "start_heartbeat_service"}],
      get_upload_config |-> [ops |-> SnapshotConfig, next |-> {"command"}],
      set_upload_config |-> [ops |-> Guard("upload_config", <<>>),
                             next |-> {"command"}],
      get_upload_progress |-> [ops |-> Guard("upload_progress", <<>>),
                               next |-> {"command"}],
      clear_upload_queue |-> [ops |-> Guard("upload_queue", <<>>),
                              next |-> {"command"}],
      get_queue_size |-> [ops |-> Guard("upload_queue", <<>>), next |-> {"command"}],
      trigger_manual_upload |->
          [ops |-> SnapshotConfig \o Guard("upload_queue", <<>>)
                     \o <<Await("add_to_upload_queue_async")>>,
           next |-> {"command"}],
      \* lib.rs: the server URL is read from the upload config
      start_heartbeat_service |->
          [ops |-> Guard("upload_config", <<>>) \o <<Await("start_heartbeat")>>,
           next |-> {"command"}] ]

\* where each thread starts
Entry(t) ==
    CASE t = "scheduler" -> "loop"
      [] t = "uploader" -> "upload_file"
      [] t = "watcher" -> "enqueue"
      [] OTHER -> "command"

\* the mutexes a thread holds
Held(t) == {m \in Mutexes : mutex_owner[m] = t}

Running(t) == thread_code[t] # <<>>
NextOp(t) == Head(thread_code[t].ops)
AtOp(t, op) == Running(t) /\ thread_code[t].ops # <<>> /\ NextOp(t).op = op

\* the data behind the mutexes is left out of these steps
LockFrame ==
    /\ emit' = NoEvent
    /\ UNCHANGED <<now, config, queue, progress, sched, tasks, next_id, emitted,
                   watch_vars, heartbeat_vars>>

\* the thread goes to its next segment: the scheduler is spawned by run(), an
\* uploader task by the scheduler, and the others are called from outside
thread_enter(t, s) ==
    /\ IF Running(t)
       THEN thread_code[t].ops = <<>> /\ s \in Segments[thread_code[t].seg].next
       ELSE s = Entry(t)
    /\ thread_code' = [thread_code EXCEPT ![t] = [seg |-> s, ops |-> Segments[s].ops]]
    /\ UNCHANGED mutex_owner
    /\ LockFrame

Advance(t) == [thread_code EXCEPT ![t].ops = Tail(@)]

\* Mutex::lock: the thread blocks until the mutex is free
thread_lock(t) ==
    /\ AtOp(t, "lock")
    /\ mutex_owner[NextOp(t).on] = NoThread
    /\ mutex_owner' = [mutex_owner EXCEPT ![NextOp(t).on] = t]
    /\ thread_code' = Advance(t)
    /\ LockFrame

\* the drop of the guard
thread_unlock(t) ==
    /\ AtOp(t, "unlock")
    /\ mutex_owner' = [mutex_owner EXCEPT ![NextOp(t).on] = NoThread]
    /\ thread_code' = Advance(t)
    /\ LockFrame

\* the future awaited is ready and the thread goes on
thread_await(t) ==
    /\ AtOp(t, "await")
    /\ thread_code' = Advance(t)
    /\ UNCHANGED mutex_owner
    /\ LockFrame

NextLocks ==
    \/ \E t \in Threads : \E s \in DOMAIN Segments : thread_enter(t, s)
    \/ \E t \in Threads : thread_lock(t)
    \/ \E t \in Threads : thread_unlock(t)
    \/ \E t \in Threads : thread_await(t)

\* every thread runs at its own pace, and every branch of the code is taken
SpecLocks == Init /\ [][NextLocks]_vars

(***************************************************************************)
(* C32: no thread holds the queue, config or progress mutex while it is    *)
(* suspended: at every await point of the scheduler, of an uploader task   *)
(* and of the command handlers the thread holds none of the three locks.   *)
(***************************************************************************)
C32_NoLockHeldAcrossAwait ==
    \A t \in Threads : AtOp(t, "await") => Held(t) = {}

\* the scheduler waits for the probe, which it entered after the progress
\* block, while an uploader task is inside its own progress block
C32_Witness ==
    /\ AtOp("scheduler", "await") /\ NextOp("scheduler").on = "probe"
    /\ Held("uploader") = {"upload_progress", "upload_queue"}

\* t is blocked in lock() on a mutex somebody holds (itself included: a
\* std::sync::Mutex is not re-entrant)
Blocked(t) == AtOp(t, "lock") /\ mutex_owner[NextOp(t).on] # NoThread

\* a set of threads each blocked on a mutex held by a thread of the set
Deadlocked(S) ==
    /\ S # {}
    /\ \A t \in S : Blocked(t) /\ mutex_owner[NextOp(t).on] \in S

(***************************************************************************)
(* C35: the scheduler, the uploader tasks, the enqueue callers and the     *)
(* command handlers never deadlock on the queue, config and progress       *)
(* mutexes: no set of threads wait for each other, the only two locks held *)
(* together are progress and queue, and no thread asks for the progress    *)
(* lock while it holds the queue lock.                                     *)
(***************************************************************************)
C35_NoDeadlockProgressBeforeQueue ==
    /\ \A S \in SUBSET Threads : ~Deadlocked(S)
    /\ \A t \in Threads :
         /\ Cardinality(Held(t)) >= 2 => Held(t) = {"upload_progress", "upload_queue"}
         /\ (AtOp(t, "lock") /\ NextOp(t).on = "upload_progress") =>
                "upload_queue" \notin Held(t)
         /\ (AtOp(t, "lock") /\ Held(t) # {}) =>
                (Held(t) = {"upload_progress"} /\ NextOp(t).on = "upload_queue")

\* the scheduler is inside its progress block with both locks, and the uploader
\* task waits at the door of its own
C35_Witness ==
    /\ Held("scheduler") = {"upload_progress", "upload_queue"}
    /\ Blocked("uploader") /\ NextOp("uploader").on = "upload_progress"
    /\ Blocked("watcher") /\ NextOp("watcher").on = "upload_queue"

(***************************************************************************)
(* The heartbeat (heartbeat.rs): start, stop, update and the spawned task  *)
(***************************************************************************)
\* The commands are async and run on the worker threads of the runtime, so
\* calls overlap; a call holds one tokio mutex at a time, inside one block, and
\* each block is one step here.  A task is named by its place in
\* heartbeat_tasks, a config by the number of the call that brought it.
\* the heartbeat touches nothing of the upload pipeline or of the watcher
HeartbeatFrame ==
    /\ emit' = NoEvent
    /\ UNCHANGED <<now, config, queue, progress, sched, tasks, next_id, emitted,
                   watch_vars, lock_vars>>

StopSteps == <<"abort", "clear_config", "clear_status">>
StartSteps == StopSteps \o <<"store_config", "spawn", "store_handle">>
\* update_heartbeat_token reads the config, then update_heartbeat_config stops
\* and starts
UpdateSteps == <<"read_config">> \o StopSteps \o StartSteps

StepsOf(fn) ==
    CASE fn = "start_heartbeat" -> StartSteps
      [] fn = "stop_heartbeat" -> StopSteps
      [] OTHER -> UpdateSteps

HeartbeatCommands == {"start_heartbeat", "stop_heartbeat", "update_heartbeat_config"}

Returned(c) == heartbeat_calls[c].steps = <<>>
AtStep(c, step) ==
    /\ c \in DOMAIN heartbeat_calls
    /\ ~Returned(c)
    /\ Head(heartbeat_calls[c].steps) = step
StepDone(c) == [heartbeat_calls EXCEPT ![c].steps = Tail(@)]

\* the front-end invokes a command; alone records that every earlier call had
\* returned by then
heartbeat_call(fn) ==
    /\ Len(heartbeat_calls) < MaxHeartbeatCalls
    /\ heartbeat_calls' = Append(heartbeat_calls,
           [fn |-> fn, steps |-> StepsOf(fn), handle |-> 0,
            alone |-> \A c \in DOMAIN heartbeat_calls : Returned(c)])
    /\ UNCHANGED <<heartbeat_state, status_state, task_state, heartbeat_tasks>>
    /\ HeartbeatFrame

\* update_heartbeat_token: with no config stored it returns an error
read_config(c) ==
    /\ AtStep(c, "read_config")
    /\ heartbeat_calls' =
         IF heartbeat_state = 0
         THEN [heartbeat_calls EXCEPT ![c].steps = <<>>]
         ELSE StepDone(c)
    /\ UNCHANGED <<heartbeat_state, status_state, task_state, heartbeat_tasks>>
    /\ HeartbeatFrame

\* JoinHandle::abort: the task is marked; it is dropped the next time it is
\* suspended, and a task that has finished is left as it is
Abort(ts, k) == IF k = 0 THEN ts ELSE [ts EXCEPT ![k].aborted = TRUE]

\* stop_heartbeat, first block: task.take() and handle.abort()
abort_task(c) ==
    /\ AtStep(c, "abort")
    /\ heartbeat_tasks' = Abort(heartbeat_tasks, task_state)
    /\ task_state' = 0
    /\ heartbeat_calls' = StepDone(c)
    /\ UNCHANGED <<heartbeat_state, status_state>>
    /\ HeartbeatFrame

\* stop_heartbeat, second block: *state = None
clear_config(c) ==
    /\ AtStep(c, "clear_config")
    /\ heartbeat_state' = 0
    /\ heartbeat_calls' = StepDone(c)
    /\ UNCHANGED <<status_state, task_state, heartbeat_tasks>>
    /\ HeartbeatFrame

\* stop_heartbeat, third block
clear_status(c) ==
    /\ AtStep(c, "clear_status")
    /\ status_state' = ClearedStatus
    /\ heartbeat_calls' = StepDone(c)
    /\ UNCHANGED <<heartbeat_state, task_state, heartbeat_tasks>>
    /\ HeartbeatFrame

\* start_heartbeat: *state = Some(config.clone())
store_config(c) ==
    /\ AtStep(c, "store_config")
    /\ heartbeat_state' = c
    /\ heartbeat_calls' = StepDone(c)
    /\ UNCHANGED <<status_state, task_state, heartbeat_tasks>>
    /\ HeartbeatFrame

\* tokio::spawn: the task runs from now on, its handle is a local of the call
spawn_task(c) ==
    /\ AtStep(c, "spawn")
    /\ heartbeat_tasks' = Append(heartbeat_tasks, [pc |-> "config", aborted |-> FALSE])
    /\ heartbeat_calls' = [StepDone(c) EXCEPT ![c].handle = Len(heartbeat_tasks) + 1]
    /\ UNCHANGED <<heartbeat_state, status_state, task_state>>
    /\ HeartbeatFrame

\* *task = Some(task_handle): a handle stored before is dropped, which detaches
\* its task and does not abort it
store_handle(c) ==
    /\ AtStep(c, "store_handle")
    /\ task_state' = heartbeat_calls[c].handle
    /\ heartbeat_calls' = StepDone(c)
    /\ UNCHANGED <<heartbeat_state, status_state, heartbeat_tasks>>
    /\ HeartbeatFrame

\* the places where the task is suspended: the request in flight and the tick
Suspended(t) == t.pc \in {"request", "tick"}
Over(t) == t.pc \in {"done", "cancelled"}
TaskAt(k, pc) ==
    /\ k \in DOMAIN heartbeat_tasks
    /\ heartbeat_tasks[k].pc = pc
    /\ Suspended(heartbeat_tasks[k]) => ~heartbeat_tasks[k].aborted
TaskTo(k, pc) == [heartbeat_tasks EXCEPT ![k].pc = pc]

\* an aborted task that is suspended is dropped by the runtime
task_cancelled(k) ==
    /\ k \in DOMAIN heartbeat_tasks
    /\ Suspended(heartbeat_tasks[k]) /\ heartbeat_tasks[k].aborted
    /\ heartbeat_tasks' = TaskTo(k, "cancelled")
    /\ UNCHANGED <<heartbeat_state, status_state, task_state, heartbeat_calls>>
    /\ HeartbeatFrame

\* the top of the loop: with a config the request is sent, without it the
\* task ends
task_config(k) ==
    /\ TaskAt(k, "config")
    /\ heartbeat_tasks' = TaskTo(k, IF heartbeat_state = 0 THEN "done" ELSE "request")
    /\ UNCHANGED <<heartbeat_state, status_state, task_state, heartbeat_calls>>
    /\ HeartbeatFrame

\* make_heartbeat_request returns
task_response(k, res) ==
    /\ TaskAt(k, "request")
    /\ heartbeat_tasks' = TaskTo(k, res)
    /\ UNCHANGED <<heartbeat_state, status_state, task_state, heartbeat_calls>>
    /\ HeartbeatFrame

\* Ok(response): the status is written
task_ok(k) ==
    /\ TaskAt(k, "ok")
    /\ status_state' = [status |-> "online", is_loading |-> FALSE, error |-> "none"]
    /\ heartbeat_tasks' = TaskTo(k, "tick")
    /\ UNCHANGED <<heartbeat_state, task_state, heartbeat_calls>>
    /\ HeartbeatFrame

\* Err(e): the previous response is kept, marked offline
task_err(k) ==
    /\ TaskAt(k, "err")
    /\ status_state' =
         [status |-> IF status_state.status = "none" THEN "none" ELSE "offline",
          is_loading |-> FALSE, error |-> "err"]
    /\ heartbeat_tasks' = TaskTo(k, "tick")
    /\ UNCHANGED <<heartbeat_state, task_state, heartbeat_calls>>
    /\ HeartbeatFrame

\* interval.tick() returns
task_tick(k) ==
    /\ TaskAt(k, "tick")
    /\ heartbeat_tasks' = TaskTo(k, "config")
    /\ UNCHANGED <<heartbeat_state, status_state, task_state, heartbeat_calls>>
    /\ HeartbeatFrame

NextHeartbeat ==
    \/ \E fn \in HeartbeatCommands : heartbeat_call(fn)
    \/ \E c \in DOMAIN heartbeat_calls : read_config(c)
    \/ \E c \in DOMAIN heartbeat_calls : abort_task(c)
    \/ \E c \in DOMAIN heartbeat_calls : clear_config(c)
    \/ \E c \in DOMAIN heartbeat_calls : clear_status(c)
    \/ \E c \in DOMAIN heartbeat_calls : store_config(c)
    \/ \E c \in DOMAIN heartbeat_calls : spawn_task(c)
    \/ \E c \in DOMAIN heartbeat_calls : store_handle(c)
    \/ \E k \in DOMAIN heartbeat_tasks : task_cancelled(k)
    \/ \E k \in DOMAIN heartbeat_tasks : task_config(k)
    \/ \E k \in DOMAIN heartbeat_tasks : \E res \in {"ok", "err"} : task_response(k, res)
    \/ \E k \in DOMAIN heartbeat_tasks : task_ok(k)
    \/ \E k \in DOMAIN heartbeat_tasks : task_err(k)
    \/ \E k \in DOMAIN heartbeat_tasks : task_tick(k)

\* the front-end calls the heartbeat commands at any moment
SpecHeartbeat == Init /\ [][NextHeartbeat]_vars

\* a task that has neither ended nor been aborted
Alive(k) == ~Over(heartbeat_tasks[k]) /\ ~heartbeat_tasks[k].aborted

(***************************************************************************)
(* C33: after any sequence of start_heartbeat, stop_heartbeat and          *)
(* update_heartbeat_config, concurrent ones included, once every call has  *)
(* returned at most one heartbeat task is running, and it is the task      *)
(* whose handle is stored in the task state.                               *)
(***************************************************************************)
C33_OneHeartbeatTask ==
    (\A c \in DOMAIN heartbeat_calls : Returned(c)) =>
        \A k \in DOMAIN heartbeat_tasks : Alive(k) => task_state = k

\* a call of stop_heartbeat made when nothing else was going on has returned,
\* and no command has been called since
Stopped ==
    /\ heartbeat_calls # <<>>
    /\ heartbeat_calls[Len(heartbeat_calls)].fn = "stop_heartbeat"
    /\ heartbeat_calls[Len(heartbeat_calls)].alone
    /\ Returned(Len(heartbeat_calls))

\* a heartbeat request is sent
RequestSent ==
    \E k \in DOMAIN heartbeat_tasks :
        heartbeat_tasks[k].pc = "config" /\ heartbeat_tasks'[k].pc = "request"

(***************************************************************************)
(* C34: after stop_heartbeat returns, the stored config is None, the       *)
(* stored task handle is None and the heartbeat status is cleared, and     *)
(* until the next call of a command the status stays cleared and no        *)
(* heartbeat request is sent.                                              *)
(***************************************************************************)
C34_StoppedStaysCleared ==
    [][Stopped =>
          /\ heartbeat_state = 0
          /\ task_state = 0
          /\ status_state = ClearedStatus
          /\ Stopped' => (status_state' = status_state /\ ~RequestSent)
      ]_vars

\* no uploader task is running and the scheduler is between two batches
Quiescent == NumTasks = 0 /\ sched.pc \in {"loop", "sleep"}

(***************************************************************************)
(* C36: the counters never run ahead of the events: in every state         *)
(* total_uploaded is at most the number of `uploaded` statuses emitted so  *)
(* far and total_failed at most the number of `failed` statuses emitted so *)
(* far, and when no uploader task is running and the scheduler is between  *)
(* batches each counter equals its number of events.                       *)
(***************************************************************************)
C36_CountersFollowEvents ==
    /\ progress.total_uploaded <= emitted.uploaded
    /\ progress.total_failed <= emitted.failed
    /\ Quiescent =>
         /\ progress.total_uploaded = emitted.uploaded
         /\ progress.total_failed = emitted.failed

\* one file was uploaded, another failed for good, and all is at rest
C36_Witness ==
    /\ Quiescent
    /\ emitted.uploaded >= 1
    /\ emitted.failed >= 1
    /\ queue = <<>>

(***************************************************************************)
(* C37: in one successful probe each item of the batch is acted on at most *)
(* once and each verdict is applied to the item whose file it describes,   *)
(* also when two items of the batch have the same relative path: in the    *)
(* results the scheduler works through, every verdict is paired with the   *)
(* item it is for, and no item is paired twice.                            *)
(***************************************************************************)
C37_VerdictAppliedToItsItem ==
    \A i \in DOMAIN sched.batch_results :
        /\ sched.batch_results[i].item.id = sched.batch_results[i].result.for_id
        /\ \A j \in DOMAIN sched.batch_results :
             sched.batch_results[j].item.id = sched.batch_results[i].item.id => j = i

(***************************************************************************)
(* Every item followed to its terminal status                              *)
(***************************************************************************)
\* the files enqueued, each once, so that no item is replaced by a newer one:
\* two folders are watched one after the other and hold a file of the same name
TerminalPaths == << <<"w", "a.txt">>, <<"v", "a.txt">>, <<"w", "c.txt">> >>

EnqueueOnce ==
    /\ next_id \in DOMAIN TerminalPaths
    /\ EnqueueUnder({TerminalPaths[next_id]}, MaxTerminalEnqueues)

\* the probe succeeds, with a verdict for every item of the request: `exists`,
\* or `needs_upload` with a URL
ProbeSucceeds ==
    \/ SchedProbeRequest("ok", ExistsAll(sched.valid_items))
    \/ SchedProbeRequest("ok", NeedsUploadAll(sched.valid_items))

\* the scheduler with every file readable
SchedulerTerminal ==
    \/ SchedSnapshot
    \/ SchedDrain
    \/ SchedPublish
    \/ SchedProbeRead(1..Len(sched.ready_items))
    \/ SchedWakeUntimed
    \/ SchedResult

ProbeFailsOnce == SchedProbeRequest("err", <<>>)

NextTerminal ==
    \/ EnqueueOnce
    \/ SchedulerTerminal
    \/ ProbeFailsOnce
    \/ ProbeSucceeds
    \/ UploaderWith({"ok", "put_err"})

\* uploads enabled, two uploads at a time, nothing cleared; the scheduler and
\* the uploader tasks are always scheduled again, and a probe that is tried
\* again and again succeeds in the end
SpecTerminal ==
    /\ InitPipeline
    /\ [][NextTerminal]_vars
    /\ WF_vars(SchedulerTerminal)
    /\ WF_vars(UploaderWith({"ok", "put_err"}))
    /\ SF_vars(ProbeSucceeds)

\* the terminal status of the item id has just been emitted
Terminal(id) == emit.status \in TerminalStatuses /\ emit.id = id

(***************************************************************************)
(* C38: under fair scheduling, with uploads enabled, every file readable   *)
(* and a probe that succeeds in the end with `exists` or `needs_upload`    *)
(* and a URL for every item, every item that is enqueued, and neither      *)
(* cleared nor replaced, eventually receives a terminal status (`uploaded` *)
(* or `failed`), and no item is given more than MAX_RETRY_COUNT upload     *)
(* attempts.                                                               *)
(***************************************************************************)
C38_EveryItemReachesTerminalStatus ==
    /\ \A id \in 1..MaxTerminalEnqueues : (id \in QueueIds) ~> Terminal(id)
    /\ [](\A t \in DOMAIN tasks : t.item.attempts <= MAX_RETRY_COUNT)

====
